---- MODULE Spec2Model ----
(***************************************************************************)
(* pytimelog: the terminal dashboard (pytimelog/tui.py), the log file it   *)
(* shares with the other front-ends (src/pytimelog/storage.py) and the     *)
(* layout engine of its left column.                                       *)
(*                                                                         *)
(* Instants are whole seconds since the epoch, in UTC: storage writes and  *)
(* reads second-precision UTC ISO timestamps, and Python compares aware    *)
(* datetimes by instant. A label is a sequence of elements: an element is  *)
(* one character, or a run of characters, typed key by key, that reads as  *)
(* the head of a log line.                                                 *)
(***************************************************************************)
EXTENDS Integers, Sequences, FiniteSets, TLC

\* ------------------------------------------------------------- bounds
\* Clock readings are 0..MaxNow (the clock may stand still or be set back).
MaxNow == 1
\* The start action is not taken once the log holds MaxEntries lines.
MaxEntries == 2
\* The prompt takes no further character once the buffer holds MaxBuf.
MaxBuf == 3
\* A scroll offset is not pushed past MaxOffset.
MaxOffset == 1
\* The layout engine is applied to totals -2..MaxT,
\* and its shrink helper to lists of 1..MaxPanels minimums in 1..MaxMin.
MaxT == 30
MaxPanels == 4
MaxMin == 3
\* The aggregates are applied to snapshots of up to MaxTagged entries.
MaxTagged == 7

\* ------------------------------------------------- program constants
\* timedelta(minutes=1), in seconds
Minute == 60
\* self.timeout_ms
TimeoutMs == 1000
\* stdscr.timeout(-1): a blocking read
Blocking == -1
\* footer_height, status_height in draw
FooterHeight == 2
StatusHeight == 3
\* min_current_height in draw
MinCurrentHeight == 6
\* Optional[datetime]: the end of an open interval
None == -1
\* a civil day, in seconds
Day == 86400
\* timedelta(hours=1), in seconds
Hour == 3600

\* ------------------------------------------------------ input samples
Clock == 0..MaxNow
\* Printable keys the prompt is fed: a space, a letter, and form feed
\* (Ctrl-L, key code 12), which str.strip() treats as whitespace and
\* str.splitlines() as a line boundary.
SP == " "
FF == "^L"
\* Runs of printable keys that read as the head of a log line: two time
\* columns and the '|' separator. The first has its end unset; the second
\* ends a day before it starts.
HeadOpen == "1970-01-01 -|"
HeadShut == "1970-01-02 1970-01-01|"
Heads == {HeadOpen, HeadShut}
\* What one user types into the prompt besides Esc, Enter and backspace:
\* letters and a stray control key, or line heads and a stray control key
PlainKeys == {"a", FF}
HeadKeyboards == {{HeadOpen, FF}, {HeadShut, FF}}
\* Terminal heights sampled by draw, and offsets of the local zone from UTC.
Heights == {11, 17}
UtcOffsets == {0}

\* ------------------------------------------------------ Python helpers
Max(a, b) == IF a >= b THEN a ELSE b
Min(a, b) == IF a <= b THEN a ELSE b

RECURSIVE Sum(_)
Sum(s) == IF s = <<>> THEN 0 ELSE Head(s) + Sum(Tail(s))

IsSpace(c) == c \in {SP, FF}

RECURSIVE lstrip(_)
lstrip(s) == IF s # <<>> /\ IsSpace(Head(s)) THEN lstrip(Tail(s)) ELSE s

RECURSIVE rstrip(_)
rstrip(s) ==
    IF s # <<>> /\ IsSpace(s[Len(s)]) THEN rstrip(SubSeq(s, 1, Len(s) - 1)) ELSE s

\* str.strip(): leading and trailing whitespace removed
strip(s) == rstrip(lstrip(s))

\* str.splitlines() of a text that ends a line: the segments between form
\* feeds (a text that ends with a line boundary yields no empty last segment)
RECURSIVE splitlines(_, _)
splitlines(s, cur) ==
    IF s = <<>> THEN (IF cur = <<>> THEN <<>> ELSE <<cur>>)
    ELSE IF Head(s) = FF THEN <<cur>> \o splitlines(Tail(s), <<>>)
    ELSE splitlines(Tail(s), Append(cur, Head(s)))

\* ------------------------------------------------------------ storage
\* Entry(start, end, text)
Entry(start, end, text) == [start |-> start, end |-> end, text |-> text]

\* format_entry: the text of one log line, "<start> <end or ->|<label>";
\* both instants are written in UTC, the label is stripped.
format_entry(entry) ==
    [start |-> entry.start, end |-> entry.end, text |-> strip(entry.text)]

\* The physical lines a formatted line occupies once it is in the file and
\* the file is split into lines again: the part up to the first line
\* boundary keeps the timestamps, every further part is a line of its own.
PhysLines(formatted) ==
    LET segs == splitlines(formatted.text, <<>>)
        first == IF segs = <<>> THEN <<>> ELSE Head(segs)
    IN  <<[kind |-> "entry", start |-> formatted.start,
           end |-> formatted.end, text |-> first]>>
        \o (IF segs = <<>> THEN <<>>
            ELSE [i \in 1..(Len(segs) - 1) |->
                    [kind |-> "raw", start |-> None, end |-> None,
                     text |-> segs[i + 1]]])

\* datetime.fromisoformat of the time columns of a typed line head
HeadStart(c) == IF c = HeadOpen THEN 0 ELSE Day
HeadEnd(c) == IF c = HeadOpen THEN None ELSE 0

\* read_entries skips a line that is blank or starts with '#'
IsSkipped(line) ==
    /\ line.kind = "raw"
    /\ \/ strip(line.text) = <<>>
       \/ Head(strip(line.text)) = "#"

\* The stripped line splits at its first '|' into two time columns and a
\* text: a line format_entry began, or one that begins with a typed head
HasTimeColumns(line) ==
    \/ line.kind = "entry"
    \/ /\ strip(line.text) # <<>>
       /\ Head(strip(line.text)) \in Heads

\* parse_entry splitting the line at its last '|', not at its first
ParseEntryAtLastBar(line) ==
    LET bars == {i \in 1..Len(line.text) : line.text[i] \in Heads}
        last == IF bars = {} THEN 0
                ELSE CHOOSE i \in bars : \A j \in bars : j <= i
    IN  Entry(line.start, line.end,
              strip(SubSeq(line.text, last + 1, Len(line.text))))

\* parse_entry on a line that holds the '|' separator and two time columns
parse_entry(line) ==
    IF line.kind = "entry" THEN Entry(line.start, line.end, strip(line.text))
    ELSE LET stripped == strip(line.text)
         IN  Entry(HeadStart(Head(stripped)), HeadEnd(Head(stripped)),
                   strip(Tail(stripped)))

\* parse_entry raises ValueError on any other line: it has no '|', or
\* what is before its first '|' is not two time columns
RaisesValueError(line) == ~IsSkipped(line) /\ ~HasTimeColumns(line)

\* read_entries returns normally
Readable(f) == \A i \in 1..Len(f) : ~RaisesValueError(f[i])

RECURSIVE read_entries(_)
read_entries(f) ==
    IF f = <<>> THEN <<>>
    ELSE IF IsSkipped(Head(f)) THEN read_entries(Tail(f))
    ELSE <<parse_entry(Head(f))>> \o read_entries(Tail(f))

\* write_entries losing the last entry
RECURSIVE WriteEntriesButLast(_)
WriteEntriesButLast(es) ==
    IF Len(es) <= 1 THEN <<>>
    ELSE PhysLines(format_entry(Head(es))) \o WriteEntriesButLast(Tail(es))

RECURSIVE write_entries(_)
write_entries(es) ==
    IF es = <<>> THEN <<>>
    ELSE PhysLines(format_entry(Head(es))) \o write_entries(Tail(es))

append_entry(f, entry) == f \o PhysLines(format_entry(entry))

\* find_open: the index (from 1) of the last entry whose end is None;
\* 0 stands for Python's None
RECURSIVE find_open(_)
find_open(es) ==
    IF es = <<>> THEN 0
    ELSE IF es[Len(es)].end = None THEN Len(es)
    ELSE find_open(SubSeq(es, 1, Len(es) - 1))

\* check_overlap counting two intervals that touch as overlapping
RECURSIVE CheckOverlapTouching(_, _, _, _)
CheckOverlapTouching(es, idx, candidate, now) ==
    IF idx > Len(es) THEN <<0, 0>>
    ELSE LET existing == es[idx]
             existing_end == IF existing.end = None THEN now ELSE existing.end
             candidate_end == IF candidate.end = None THEN now ELSE candidate.end
             overlap_duration == Min(existing_end, candidate_end)
                                    - Max(candidate.start, existing.start)
         IN  IF /\ candidate.start <= existing_end
                /\ candidate_end >= existing.start
                /\ overlap_duration >= 0
             THEN <<idx, overlap_duration>>
             ELSE CheckOverlapTouching(es, idx + 1, candidate, now)

\* check_overlap(entries, candidate, now): the first entry that overlaps the
\* candidate for a positive duration, as <<index, overlap>>; <<0, 0>> stands
\* for None
RECURSIVE CheckOverlapFrom(_, _, _, _)
CheckOverlapFrom(es, idx, candidate, now) ==
    IF idx > Len(es) THEN <<0, 0>>
    ELSE LET existing == es[idx]
             existing_end == IF existing.end = None THEN now ELSE existing.end
             candidate_end == IF candidate.end = None THEN now ELSE candidate.end
             overlap_duration == Min(existing_end, candidate_end)
                                    - Max(candidate.start, existing.start)
         IN  IF /\ candidate.start < existing_end
                /\ candidate_end > existing.start
                /\ overlap_duration > 0
             THEN <<idx, overlap_duration>>
             ELSE CheckOverlapFrom(es, idx + 1, candidate, now)

check_overlap(es, candidate, now) == CheckOverlapFrom(es, 1, candidate, now)

\* ------------------------------------------------------ layout engine
\* mins and weights of allocate_left_heights: day, week, top
Mins == <<3, 5, 4>>
Weights == <<2, 3, 3>>

\* ShrinkFor with the floor of 1 lost: a panel is shrunk while it is above 0
RECURSIVE ShrinkForBelowOne(_, _, _)
ShrinkForBelowOne(result, idx, total) ==
    IF idx > Len(result) THEN result
    ELSE IF Sum(result) <= total THEN result
    ELSE IF result[idx] > 0
         THEN ShrinkForBelowOne([result EXCEPT ![idx] = @ - 1], idx + 1, total)
    ELSE ShrinkForBelowOne(result, idx + 1, total)

\* One pass of the for loop of _shrink_to_total, from index idx on
RECURSIVE ShrinkFor(_, _, _)
ShrinkFor(result, idx, total) ==
    IF idx > Len(result) THEN result
    ELSE IF Sum(result) <= total THEN result
    ELSE IF result[idx] > 1
         THEN ShrinkFor([result EXCEPT ![idx] = @ - 1], idx + 1, total)
    ELSE ShrinkFor(result, idx + 1, total)

\* The while loop of _shrink_to_total
RECURSIVE ShrinkWhile(_, _)
ShrinkWhile(result, total) ==
    IF Sum(result) > total /\ (\E i \in 1..Len(result) : result[i] > 1)
    THEN ShrinkWhile(ShrinkFor(result, 1, total), total)
    ELSE result

_shrink_to_total(values, total) ==
    IF total <= 0 THEN [i \in 1..Len(values) |-> 0]
    ELSE ShrinkWhile(values, total)

\* allocate_left_heights with the top panel's share truncated like the others
AllocateTruncatingTop(total) ==
    IF total <= 0 THEN <<0, 0, 0>>
    ELSE IF total <= Sum(Mins) THEN _shrink_to_total(Mins, total)
    ELSE LET remaining == total - Sum(Mins)
         IN  [i \in 1..3 |->
                Mins[i] + (remaining * Weights[i]) \div Sum(Weights)]

\* int(remaining * w / total_weight): the operands are non-negative and the
\* quotient is exact in floating point at any terminal size, so int() is
\* the floor
allocate_left_heights(total) ==
    IF total <= 0 THEN <<0, 0, 0>>
    ELSE LET base_sum == Sum(Mins)
         IN  IF total <= base_sum THEN _shrink_to_total(Mins, total)
             ELSE LET remaining == total - base_sum
                      total_weight == Sum(Weights)
                      extra_day == (remaining * Weights[1]) \div total_weight
                      extra_week == (remaining * Weights[2]) \div total_weight
                      extra_top == remaining - extra_day - extra_week
                  IN  <<Mins[1] + extra_day, Mins[2] + extra_week,
                        Mins[3] + extra_top>>

\* ------------------------------------------------- windows and rows
\* The local date of an instant as a day number (day 0 is 1970-01-01)
LocalDate(now, utcoffset) == (now + utcoffset) \div Day

\* day_window: local midnight today to local midnight tomorrow, in UTC
day_window(now, utcoffset) ==
    LET today == LocalDate(now, utcoffset)
    IN  <<today * Day - utcoffset, (today + 1) * Day - utcoffset>>

\* week_window: date.weekday() is 0 on Monday, and day 0 was a Thursday
week_window(now, utcoffset) ==
    LET today == LocalDate(now, utcoffset)
        weekday == (today + 3) % 7
        week_start == today - weekday
    IN  <<week_start * Day - utcoffset, (week_start + 7) * Day - utcoffset>>

\* clamp_duration counting an open entry up to the end of the window
ClampDurationToWindowEnd(entry, start, end, now) ==
    LET entry_end == IF entry.end = None THEN end ELSE entry.end
        latest_start == Max(entry.start, start)
        earliest_end == Min(entry_end, end)
    IN  IF earliest_end <= latest_start THEN 0
        ELSE earliest_end - latest_start

clamp_duration(entry, start, end, now) ==
    LET entry_end == IF entry.end = None THEN now ELSE entry.end
        latest_start == Max(entry.start, start)
        earliest_end == Min(entry_end, end)
    IN  IF earliest_end <= latest_start THEN 0
        ELSE earliest_end - latest_start

\* the command line's clamp_duration without its test for an empty overlap
CliClampDurationUnclamped(entry, start, end, now) ==
    LET entry_end == IF entry.end = None THEN now ELSE entry.end
        latest_start == Max(entry.start, start)
        earliest_end == Min(entry_end, end)
    IN  earliest_end - latest_start

\* clamp_duration of the command line (cli.py), a copy of the dashboard's
cli_clamp_duration(entry, start, end, now) ==
    LET entry_end == IF entry.end = None THEN now ELSE entry.end
        latest_start == Max(entry.start, start)
        earliest_end == Min(entry_end, end)
    IN  IF earliest_end <= latest_start THEN 0
        ELSE earliest_end - latest_start

\* total_for_range: the sum of clamp_duration over the snapshot
RECURSIVE total_for_range(_, _, _, _)
total_for_range(es, start_utc, end_utc, now) ==
    IF es = <<>> THEN 0
    ELSE clamp_duration(Head(es), start_utc, end_utc, now)
         + total_for_range(Tail(es), start_utc, end_utc, now)

\* rows.sort(key=local_start, reverse=True): a stable sort, so a row goes
\* behind every row already placed whose start is not earlier
RECURSIVE InsertRow(_, _)
InsertRow(rows, row) ==
    IF rows = <<>> THEN <<row>>
    ELSE IF Head(rows).local_start >= row.local_start
         THEN <<Head(rows)>> \o InsertRow(Tail(rows), row)
    ELSE <<row>> \o rows

RECURSIVE SortRows(_, _)
SortRows(rows, sorted) ==
    IF rows = <<>> THEN sorted
    ELSE SortRows(Tail(rows), InsertRow(sorted, Head(rows)))

\* rows that carry the whole length of the entry, not its part in the window
RECURSIVE CollectRowsUnclipped(_, _, _, _)
CollectRowsUnclipped(es, start_utc, end_utc, now) ==
    IF es = <<>> THEN <<>>
    ELSE LET entry == Head(es)
             rest == CollectRowsUnclipped(Tail(es), start_utc, end_utc, now)
             overlap == clamp_duration(entry, start_utc, end_utc, now)
         IN  IF entry.end = None THEN rest
             ELSE IF overlap <= 0 THEN rest
             ELSE <<[local_start |-> Max(entry.start, start_utc),
                     local_end |-> Min(entry.end, end_utc),
                     duration |-> entry.end - entry.start,
                     text |-> entry.text]>> \o rest

RECURSIVE CollectRows(_, _, _, _)
CollectRows(es, start_utc, end_utc, now) ==
    IF es = <<>> THEN <<>>
    ELSE LET entry == Head(es)
             rest == CollectRows(Tail(es), start_utc, end_utc, now)
             overlap == clamp_duration(entry, start_utc, end_utc, now)
         IN  IF entry.end = None THEN rest
             ELSE IF overlap <= 0 THEN rest
             ELSE <<[local_start |-> Max(entry.start, start_utc),
                     local_end |-> Min(entry.end, end_utc),
                     duration |-> overlap, text |-> entry.text]>> \o rest

summarize_entries(es, start_utc, end_utc, now) ==
    SortRows(CollectRows(es, start_utc, end_utc, now), <<>>)

\* ---------------------------------------------------------- aggregation
\* str.split(): the words of a text, runs of whitespace apart
RECURSIVE SplitFrom(_, _, _)
SplitFrom(text, word, words) ==
    LET closed == IF word = <<>> THEN words ELSE Append(words, word)
    IN  IF text = <<>> THEN closed
        ELSE IF IsSpace(Head(text)) THEN SplitFrom(Tail(text), <<>>, closed)
        ELSE SplitFrom(Tail(text), Append(word, Head(text)), words)

split(text) == SplitFrom(text, <<>>, <<>>)

\* word.startswith("#") and len(word) > 1
IsTagWord(word) == Len(word) > 1 /\ Head(word) = "#"

\* Entry.tags: word[1:] of every word that is a tag, in order, repeats kept
tags(text) ==
    LET words == SelectSeq(split(text), IsTagWord)
    IN  [i \in 1..Len(words) |-> Tail(words[i])]

\* the synthetic tag
Untagged == <<"(untagged)">>

\* entry.tags() or ["(untagged)"]
TagsOrUntagged(entry) ==
    IF tags(entry.text) = <<>> THEN <<Untagged>> ELSE tags(entry.text)

\* totals[tag] = totals.get(tag, timedelta(0)) + duration, on a dict, which
\* keeps its keys in the order they were first set: a list of <<key, value>>
RECURSIVE AddToTag(_, _, _)
AddToTag(totals, tag, duration) ==
    IF totals = <<>> THEN << <<tag, duration>> >>
    ELSE IF Head(totals)[1] = tag
         THEN << <<tag, Head(totals)[2] + duration>> >> \o Tail(totals)
    ELSE <<Head(totals)>> \o AddToTag(Tail(totals), tag, duration)

\* for tag in tags: totals[tag] = ...
RECURSIVE AddToTags(_, _, _)
AddToTags(totals, tag_list, duration) ==
    IF tag_list = <<>> THEN totals
    ELSE AddToTags(AddToTag(totals, Head(tag_list), duration),
                   Tail(tag_list), duration)

\* the loop of top_tasks_for_range over the snapshot
RECURSIVE TagTotals(_, _, _, _, _)
TagTotals(es, start_utc, end_utc, now, totals) ==
    IF es = <<>> THEN totals
    ELSE LET duration == clamp_duration(Head(es), start_utc, end_utc, now)
         IN  TagTotals(Tail(es), start_utc, end_utc, now,
                       IF duration <= 0 THEN totals
                       ELSE AddToTags(totals, TagsOrUntagged(Head(es)),
                                      duration))

\* an insertion that puts an item before the items it ties with
InsertItemBeforeTies(items, item) ==
    LET longer == SelectSeq(items, LAMBDA other : other[2] > item[2])
        rest == SelectSeq(items, LAMBDA other : other[2] <= item[2])
    IN  longer \o <<item>> \o rest

\* sorted(items, key=lambda item: item[1], reverse=True): a stable sort, so
\* an item goes behind every item already placed that is not shorter
InsertItem(items, item) ==
    LET ahead == SelectSeq(items, LAMBDA other : other[2] >= item[2])
        behind == SelectSeq(items, LAMBDA other : other[2] < item[2])
    IN  ahead \o <<item>> \o behind

RECURSIVE SortItems(_, _)
SortItems(items, sorted) ==
    IF items = <<>> THEN sorted
    ELSE SortItems(Tail(items), InsertItem(sorted, Head(items)))

\* top_tasks_for_range cutting one tag more than the limit asks
TopTasksCutShort(es, start_utc, end_utc, now, limit) ==
    LET ordered == SortItems(TagTotals(es, start_utc, end_utc, now, <<>>), <<>>)
    IN  SubSeq(ordered, 1, Min(limit - 1, Len(ordered)))

\* top_tasks_for_range: ordered[:limit]
top_tasks_for_range(es, start_utc, end_utc, now, limit) ==
    LET ordered == SortItems(TagTotals(es, start_utc, end_utc, now, <<>>), <<>>)
    IN  SubSeq(ordered, 1, Min(limit, Len(ordered)))

\* a total that leaves the open entry out
UiTotalClosedOnly(es, start_utc, end_utc, now) ==
    total_for_range(SelectSeq(es, LAMBDA entry : entry.end # None),
                    start_utc, end_utc, now)

\* the desktop form's total_for_range: the clamp written out in the loop
RECURSIVE ui_total_for_range(_, _, _, _)
ui_total_for_range(es, start_utc, end_utc, now) ==
    IF es = <<>> THEN 0
    ELSE LET entry == Head(es)
             entry_end == IF entry.end = None THEN now ELSE entry.end
             latest_start == Max(entry.start, start_utc)
             earliest_end == Min(entry_end, end_utc)
             rest == ui_total_for_range(Tail(es), start_utc, end_utc, now)
         IN  IF earliest_end <= latest_start THEN rest
             ELSE (earliest_end - latest_start) + rest

\* the command line's summarize: <<total, tag_totals>>
RECURSIVE SummarizeFrom(_, _, _, _, _, _)
SummarizeFrom(es, start, end, now, total, tag_totals) ==
    IF es = <<>> THEN <<total, tag_totals>>
    ELSE LET chunk == cli_clamp_duration(Head(es), start, end, now)
         IN  IF chunk <= 0
             THEN SummarizeFrom(Tail(es), start, end, now, total, tag_totals)
             ELSE SummarizeFrom(Tail(es), start, end, now, total + chunk,
                                AddToTags(tag_totals, TagsOrUntagged(Head(es)),
                                          chunk))

summarize(es, start, end, now) == SummarizeFrom(es, start, end, now, 0, <<>>)

\* ---------------------------------------------------------------- draw
\* ClampOffset clamping to the number of rows, the viewport forgotten
ClampOffsetToRows(offset, height, summaries) ==
    IF height < 2 THEN offset
    ELSE LET max_lines == Max(0, height - 2)
         IN  IF max_lines <= 0 THEN offset
             ELSE Min(offset, Max(0, Len(summaries)))

\* The offset a scrollable panel of the given height leaves behind, as in
\* draw_day_summary and draw_week_summary
ClampOffset(offset, height, summaries) ==
    IF height < 2 THEN offset
    ELSE LET max_lines == Max(0, height - 2)
         IN  IF max_lines <= 0 THEN offset
             ELSE Min(offset, Max(0, Len(summaries) - max_lines))

\* The heights draw gives the day, week and top panels on a terminal
LeftHeights(term_height) ==
    LET content_height == Max(0, term_height - FooterHeight)
        left_remaining == Max(content_height - StatusHeight, 0)
    IN  allocate_left_heights(left_remaining)

\* LeftHeights of every sampled terminal height (evaluated once)
HeightTable == [h \in Heights |-> LeftHeights(h)]

draw_day_offset(snapshot, offset, term_height, now, utcoffset) ==
    LET w == day_window(now, utcoffset)
    IN  ClampOffset(offset, HeightTable[term_height][1],
                    summarize_entries(snapshot, w[1], w[2], now))

draw_week_offset(snapshot, offset, term_height, now, utcoffset) ==
    LET w == week_window(now, utcoffset)
    IN  ClampOffset(offset, HeightTable[term_height][2],
                    summarize_entries(snapshot, w[1], w[2], now))

\* --------------------------------------------------------------- state
VARIABLES
    file,           \* the log file: its lines, in order
    entries,        \* TerminalUI.entries, the snapshot
    message,        \* TerminalUI.message
    message_error,  \* TerminalUI.message_error
    focus_section,  \* "day" or "week"
    day_offset,
    week_offset,
    mode,           \* where the controller is: blocked in the loop's getch
                    \* ("Idle"), blocked in the prompt's getch
                    \* ("Prompting"), out of the loop by a quit key
                    \* ("Exited") or by an exception ("Crashed")
    buffer,         \* the prompt's buffer
    timeout,        \* the timeout last set on stdscr
    keyboard,       \* the printable keys the user types into the prompt
    layTotal,       \* layout engine: the total it is applied to
    layValues,      \*   the minimum heights given to _shrink_to_total
    layHeights,     \*   allocate_left_heights(layTotal), once computed
    layShrunk,      \*   _shrink_to_total(layValues, layTotal), once computed
    shrResult,      \* _shrink_to_total step by step: its local result
    shrIdx,         \*   its local idx (from 1)
    shrPc,          \*   where it is: "idle", "while", "for" or "done"
    clampWindow,    \* clamp_duration: the window <<start, end>> it is given
    clampNow,       \*   its argument now
    clampDuration,  \*   what it returns for the last entry of the snapshot
    today_total,    \* draw_comment_log: today_total, once computed
    aggCall,        \* a function applied on its own to the snapshot: its
                    \*   name ("none" before the call)
    aggArg,         \*   the argument it takes besides snapshot, window
                    \*   and now (the candidate of check_overlap, the
                    \*   terminal height draw reads, the arguments of a
                    \*   command)
    aggResult,      \*   and what it returned
    racePc,         \* two front-ends starting an entry on one log: where
                    \*   each is in its start ("idle", "read", "checked",
                    \*   "refused" or "done")
    raceRead        \*   and the entries each has read (its local entries)

tuiVars == <<file, entries, message, message_error, focus_section,
             day_offset, week_offset, mode, buffer, timeout>>
shrVars == <<shrResult, shrIdx, shrPc>>
layVars == <<layTotal, layValues, layHeights, layShrunk, shrVars>>
\* what no step of a front-end changes
clampVars == <<clampWindow, clampNow, clampDuration, today_total>>
aggVars == <<aggCall, aggArg, aggResult>>
raceVars == <<racePc, raceRead>>
fixed == <<keyboard, layVars, clampVars, aggVars, raceVars>>
vars == <<tuiVars, keyboard, layVars, clampVars, aggVars, raceVars>>

\* Lines a log may hold when the dashboard starts: entries written by any
\* front-end (an end, when set, is after the start) and a comment line.
InitLines ==
    UNION {{[kind |-> "entry", start |-> s, end |-> e, text |-> <<"a">>] :
              e \in {None} \cup {t \in Clock \cup {s + Minute} : t > s}} :
           s \in Clock}
    \cup {[kind |-> "raw", start |-> None, end |-> None, text |-> <<"#">>]}

SeqsUpTo(S, n) == UNION {[1..k -> S] : k \in 0..n}

OpenCount(es) == Cardinality({i \in 1..Len(es) : es[i].end = None})

InitFiles ==
    {f \in SeqsUpTo(InitLines, MaxEntries) : OpenCount(read_entries(f)) <= 1}

Message(fmt, arg) == [fmt |-> fmt, arg |-> arg]

\* TerminalUI.__init__, and the first draw (which finds both offsets at 0)
TuiInit ==
    /\ file \in InitFiles
    /\ entries = read_entries(file)
    /\ message = Message("", <<>>)
    /\ message_error = FALSE
    /\ focus_section = "day"
    /\ day_offset = 0
    /\ week_offset = 0
    /\ mode = "Idle"
    /\ buffer = <<>>
    /\ timeout = TimeoutMs

ShrIdle ==
    /\ shrResult = <<>>
    /\ shrIdx = 0
    /\ shrPc = "idle"

ClampIdle ==
    /\ clampWindow = <<0, 0>>
    /\ clampNow = 0
    /\ clampDuration = None
    /\ today_total = None

AggIdle ==
    /\ aggCall = "none"
    /\ aggArg = None
    /\ aggResult = None

\* The front-ends that share the log: this dashboard, and another
\* front-end (the command line, the desktop form or a second dashboard)
FrontEnds == {"tui", "other"}

RaceIdle ==
    /\ racePc = [p \in FrontEnds |-> "idle"]
    /\ raceRead = [p \in FrontEnds |-> <<>>]

LayIdle ==
    /\ layTotal = 0
    /\ layValues = <<>>
    /\ layHeights = <<>>
    /\ layShrunk = <<>>
    /\ ShrIdle
    /\ ClampIdle
    /\ AggIdle
    /\ RaceIdle

Init == TuiInit /\ keyboard = PlainKeys /\ LayIdle

\* notify
notify(fmt, arg, error) ==
    /\ message' = Message(fmt, arg)
    /\ message_error' = error

\* draw, at the top of the next turn of the loop: the terminal height, the
\* clock and the local zone are read afresh; it leaves the offsets clamped.
draw(snapshot, d_offset, w_offset) ==
    \E clamped \in
          {<<draw_day_offset(snapshot, d_offset, h, now, utcoffset),
             draw_week_offset(snapshot, w_offset, h, now, utcoffset)>> :
              h \in Heights, now \in Clock, utcoffset \in UtcOffsets} :
        /\ day_offset' = clamped[1]
        /\ week_offset' = clamped[2]

\* ------------------------------------------------------ loop, in Idle
\* getch returns -1: continue
KeyTimeout ==
    /\ mode = "Idle"
    /\ draw(entries, day_offset, week_offset)
    /\ UNCHANGED <<fixed, file, entries, message, message_error, focus_section,
                   mode, buffer, timeout>>

\* 'q' or Esc: break
KeyQuit ==
    /\ mode = "Idle"
    /\ mode' = "Exited"
    /\ UNCHANGED <<fixed, file, entries, message, message_error, focus_section,
                   day_offset, week_offset, buffer, timeout>>

\* scroll_active scrolling the day panel whatever the focus
ScrollActiveDayOnly(delta) ==
    draw(entries, Max(0, day_offset + delta), week_offset)

\* scroll_active(delta), then the next draw
scroll_active(delta) ==
    IF focus_section = "day"
    THEN draw(entries, Max(0, day_offset + delta), week_offset)
    ELSE draw(entries, day_offset, Max(0, week_offset + delta))

\* up or 'k'
KeyUp ==
    /\ mode = "Idle"
    /\ scroll_active(-1)
    /\ UNCHANGED <<fixed, file, entries, message, message_error, focus_section,
                   mode, buffer, timeout>>

\* down or 'j'
KeyDown ==
    /\ mode = "Idle"
    /\ (IF focus_section = "day" THEN day_offset ELSE week_offset) < MaxOffset
    /\ scroll_active(1)
    /\ UNCHANGED <<fixed, file, entries, message, message_error, focus_section,
                   mode, buffer, timeout>>

\* tab, with both offsets put back to 0
KeyTabResetting ==
    /\ mode = "Idle"
    /\ focus_section' = (IF focus_section = "day" THEN "week" ELSE "day")
    /\ draw(entries, 0, 0)
    /\ UNCHANGED <<fixed, file, entries, message, message_error, mode, buffer,
                   timeout>>

\* tab
KeyTab ==
    /\ mode = "Idle"
    /\ focus_section' = (IF focus_section = "day" THEN "week" ELSE "day")
    /\ draw(entries, day_offset, week_offset)
    /\ UNCHANGED <<fixed, file, entries, message, message_error, mode, buffer,
                   timeout>>

\* 'r' writing back what it has read
KeyReloadRewriting ==
    /\ mode = "Idle"
    /\ file' = write_entries(read_entries(file))
    /\ entries' = read_entries(file')
    /\ notify("Reloaded log.", <<>>, FALSE)
    /\ draw(entries', day_offset, week_offset)
    /\ UNCHANGED <<fixed, focus_section, mode, buffer, timeout>>

\* 'r': reload_entries and notify. The dashboard is the only writer while it
\* runs and leaves the loop on the write that makes the log unreadable, so
\* read_entries returns normally here and in stop_entry (ReadableWhileRunning).
KeyReload ==
    /\ mode = "Idle"
    /\ entries' = read_entries(file)
    /\ notify("Reloaded log.", <<>>, FALSE)
    /\ draw(entries', day_offset, week_offset)
    /\ UNCHANGED <<fixed, file, focus_section, mode, buffer, timeout>>

\* 'n': start_entry calls prompt, which blocks in its own getch
KeyStart ==
    /\ mode = "Idle"
    /\ mode' = "Prompting"
    /\ buffer' = <<>>
    /\ timeout' = Blocking
    /\ UNCHANGED <<fixed, file, entries, message, message_error, focus_section,
                   day_offset, week_offset>>

\* stop_instant with the floor applied only to a reading before the start
StopInstantStrict(start, now) == IF now < start THEN start + Minute ELSE now

\* The end stop_entry stores for an entry started at start, stopped at now
stop_instant(start, now) == IF now <= start THEN start + Minute ELSE now

\* stop_entry with no open entry, notifying without the error flag
KeyStopNoOpenSilent ==
    /\ mode = "Idle"
    /\ find_open(read_entries(file)) = 0
    /\ notify("No active entry to stop.", <<>>, FALSE)
    /\ draw(entries, day_offset, week_offset)
    /\ UNCHANGED <<fixed, file, entries, focus_section, mode, buffer, timeout>>

\* 'x': stop_entry with no open entry
KeyStopNoOpen ==
    /\ mode = "Idle"
    /\ find_open(read_entries(file)) = 0
    /\ notify("No active entry to stop.", <<>>, TRUE)
    /\ draw(entries, day_offset, week_offset)
    /\ UNCHANGED <<fixed, file, entries, focus_section, mode, buffer, timeout>>

\* 'x': stop_entry closes the open entry and rewrites the log
KeyStop ==
    /\ mode = "Idle"
    /\ LET read == read_entries(file)
           idx == find_open(read)
       IN  /\ idx # 0
           /\ \E now \in Clock :
                LET open_entry == read[idx]
                    closed == Entry(open_entry.start,
                                    stop_instant(open_entry.start, now),
                                    open_entry.text)
                IN  /\ file' = write_entries([read EXCEPT ![idx] = closed])
                    /\ entries' = read_entries(file')
                    /\ notify("Stopped: ", open_entry.text, FALSE)
                    /\ draw(entries', day_offset, week_offset)
    /\ UNCHANGED <<fixed, focus_section, mode, buffer, timeout>>

\* ------------------------------------------------------ prompt
\* a key 0..255 that is no Esc, Enter or backspace
PromptChar ==
    /\ mode = "Prompting"
    /\ Len(buffer) < MaxBuf
    /\ \E c \in keyboard : buffer' = Append(buffer, c)
    /\ UNCHANGED <<fixed, file, entries, message, message_error, focus_section,
                   day_offset, week_offset, mode, timeout>>

\* backspace emptying the buffer
PromptBackspaceClearing ==
    /\ mode = "Prompting"
    /\ buffer' = <<>>
    /\ UNCHANGED <<fixed, file, entries, message, message_error, focus_section,
                   day_offset, week_offset, mode, timeout>>

\* backspace: buffer.pop() if the buffer is not empty
PromptBackspace ==
    /\ mode = "Prompting"
    /\ buffer' = (IF buffer # <<>> THEN SubSeq(buffer, 1, Len(buffer) - 1)
                  ELSE buffer)
    /\ UNCHANGED <<fixed, file, entries, message, message_error, focus_section,
                   day_offset, week_offset, mode, timeout>>

\* a key above 255 that is no backspace (an arrow, a resize): the prompt
\* takes no notice and reads the next key
PromptOtherKey ==
    /\ mode = "Prompting"
    /\ UNCHANGED <<fixed, file, entries, message, message_error, focus_section,
                   day_offset, week_offset, mode, buffer, timeout>>

\* prompt returns (the finally block restores the timeout) and start_entry
\* returns to the loop
BackToIdle ==
    /\ mode' = "Idle"
    /\ buffer' = <<>>
    /\ timeout' = TimeoutMs

\* Esc: prompt returns ("", True)
PromptEscape ==
    /\ mode = "Prompting"
    /\ BackToIdle
    /\ notify("Start cancelled.", <<>>, FALSE)
    /\ draw(entries, day_offset, week_offset)
    /\ UNCHANGED <<fixed, file, entries, focus_section>>

\* prompt returning the buffer as typed
PromptTextUnstripped == buffer

\* Enter: prompt returns (display.strip(), False)
prompt_text == strip(buffer)

\* Enter with nothing but whitespace typed
PromptEnterEmpty ==
    /\ mode = "Prompting"
    /\ prompt_text = <<>>
    /\ BackToIdle
    /\ notify("Please enter a description.", <<>>, TRUE)
    /\ draw(entries, day_offset, week_offset)
    /\ UNCHANGED <<fixed, file, entries, focus_section>>

\* Enter while the log holds an open entry
PromptEnterRunning ==
    /\ mode = "Prompting"
    /\ prompt_text # <<>>
    /\ find_open(read_entries(file)) # 0
    /\ BackToIdle
    /\ notify("An entry is already running.", <<>>, TRUE)
    /\ draw(entries, day_offset, week_offset)
    /\ UNCHANGED <<fixed, file, entries, focus_section>>

\* Enter: append_entry, reload_entries, notify
PromptEnterStart ==
    /\ mode = "Prompting"
    /\ prompt_text # <<>>
    /\ find_open(read_entries(file)) = 0
    /\ Len(file) < MaxEntries
    /\ \E now \in Clock :
          file' = append_entry(file, Entry(now, None, prompt_text))
    /\ Readable(file')
    /\ entries' = read_entries(file')
    /\ BackToIdle
    /\ notify("Started: ", prompt_text, FALSE)
    /\ draw(entries', day_offset, week_offset)
    /\ UNCHANGED <<fixed, focus_section>>

\* Enter: append_entry, and reload_entries raises ValueError on a line of
\* the log it has just written; the exception leaves start_entry and the loop
PromptEnterRaise ==
    /\ mode = "Prompting"
    /\ prompt_text # <<>>
    /\ find_open(read_entries(file)) = 0
    /\ Len(file) < MaxEntries
    /\ \E now \in Clock :
          file' = append_entry(file, Entry(now, None, prompt_text))
    /\ ~Readable(file')
    /\ mode' = "Crashed"
    /\ buffer' = <<>>
    /\ timeout' = TimeoutMs
    /\ UNCHANGED <<fixed, entries, message, message_error, focus_section,
                   day_offset, week_offset>>

\* an exception raised inside the try block of prompt and caught nowhere
\* that leaves the input timeout as the prompt set it
PromptErrorStillBlocking ==
    /\ mode = "Prompting"
    /\ mode' = "Crashed"
    /\ buffer' = <<>>
    /\ UNCHANGED <<fixed, file, entries, message, message_error, focus_section,
                   day_offset, week_offset, timeout>>

\* an exception raised inside the try block of prompt (curses.error from
\* addstr or move, KeyboardInterrupt while getch waits): the finally block
\* restores the timeout and the exception leaves start_entry and the loop
PromptError ==
    /\ mode = "Prompting"
    /\ mode' = "Crashed"
    /\ buffer' = <<>>
    /\ timeout' = TimeoutMs
    /\ UNCHANGED <<fixed, file, entries, message, message_error, focus_section,
                   day_offset, week_offset>>

Next ==
    \/ KeyTimeout
    \/ KeyQuit
    \/ KeyUp
    \/ KeyDown
    \/ KeyTab
    \/ KeyReload
    \/ KeyStart
    \/ KeyStopNoOpen
    \/ KeyStop
    \/ PromptChar
    \/ PromptBackspace
    \/ PromptOtherKey
    \/ PromptEscape
    \/ PromptEnterEmpty
    \/ PromptEnterRunning
    \/ PromptEnterStart
    \/ PromptEnterRaise
    \/ PromptError

Spec == Init /\ [][Next]_vars

\* The start, stop and quit keys of the dashboard on a log of finished
\* intervals, one line short of MaxEntries, with a user who types line heads
\* into labels. Every line such a label leaves in the log has its time
\* columns (HeadsReadable), so reload_entries never raises.
HeadsInit ==
    /\ TuiInit
    /\ Len(file) = MaxEntries - 1
    /\ \A i \in 1..Len(file) : file[i].kind = "entry" /\ file[i].end # None
    /\ keyboard \in HeadKeyboards
    /\ LayIdle

HeadsNext ==
    \/ KeyQuit
    \/ KeyStart
    \/ KeyStopNoOpen
    \/ KeyStop
    \/ PromptChar
    \/ PromptBackspace
    \/ PromptOtherKey
    \/ PromptEscape
    \/ PromptEnterEmpty
    \/ PromptEnterRunning
    \/ PromptEnterStart

HeadsSpec == HeadsInit /\ [][HeadsNext]_vars

\* ------------------------------------------- the command line (cli.py)
\* Each command is a process of its own on the same log: it reads the log,
\* and either exits with an error before any write or writes once. A
\* command that finds the log unreadable exits in read_entries.
\* Labels given on the command line
CliTexts == {<<"a">>}

\* command_start: --at or the clock gives the start
command_start ==
    /\ Readable(file)
    /\ Len(file) < MaxEntries
    /\ \E when \in Clock, text \in CliTexts :
          file' = (IF find_open(read_entries(file)) # 0 THEN file
                   ELSE append_entry(file, Entry(when, None, text)))
    /\ UNCHANGED <<fixed, entries, message, message_error, focus_section,
                   day_offset, week_offset, mode, buffer, timeout>>

\* command_stop: --at or the clock gives the end
command_stop ==
    /\ Readable(file)
    /\ \E when \in Clock :
          LET read == read_entries(file)
              open_index == find_open(read)
          IN  file' = (IF open_index = 0 THEN file
                       ELSE IF when <= read[open_index].start THEN file
                       ELSE write_entries(
                              [read EXCEPT ![open_index] =
                                  Entry(read[open_index].start, when,
                                        read[open_index].text)]))
    /\ UNCHANGED <<fixed, entries, message, message_error, focus_section,
                   day_offset, week_offset, mode, buffer, timeout>>

\* command_add: --start and --end give a finished entry
command_add ==
    /\ Readable(file)
    /\ Len(file) < MaxEntries
    /\ \E start \in Clock, end \in Clock, text \in CliTexts :
          LET new_entry == Entry(start, end, text)
          IN  file' = (IF end <= start THEN file
                       ELSE IF check_overlap(read_entries(file), new_entry, end)[1] # 0
                            THEN file
                       ELSE append_entry(file, new_entry))
    /\ UNCHANGED <<fixed, entries, message, message_error, focus_section,
                   day_offset, week_offset, mode, buffer, timeout>>

CliNext ==
    \/ command_start
    \/ command_stop
    \/ command_add

\* The dashboard and the command line on one log
FrontEndsNext ==
    \/ Next
    \/ CliNext

FrontEndsSpec == Init /\ [][FrontEndsNext]_vars

\* --------------------------- two starts on one log, one step at a time
\* The dashboard's user has typed a label and is about to press Enter;
\* another front-end on the same log starts an entry too. Each start reads
\* the log, looks for an open entry in what it has read, and appends.
RaceInit ==
    /\ file \in InitFiles
    /\ entries = read_entries(file)
    /\ message = Message("", <<>>)
    /\ message_error = FALSE
    /\ focus_section = "day"
    /\ day_offset = 0
    /\ week_offset = 0
    /\ mode = "Prompting"
    /\ buffer = <<"a">>
    /\ timeout = Blocking
    /\ keyboard = {"a"}
    /\ LayIdle

\* racePc, raceRead once front-end p is at pc with the entries read
RaceAt(p, pc, read) ==
    /\ racePc' = [racePc EXCEPT ![p] = pc]
    /\ raceRead' = [raceRead EXCEPT ![p] = read]

\* Enter: prompt returns the label; entries = read_entries()
TuiStartRead ==
    /\ racePc["tui"] = "idle"
    /\ mode = "Prompting"
    /\ prompt_text # <<>>
    /\ Readable(file)
    /\ RaceAt("tui", "read", read_entries(file))
    /\ UNCHANGED <<tuiVars, keyboard, layVars, clampVars, aggVars>>

\* if find_open(entries) is not None: notify and return to the loop
TuiStartCheck ==
    /\ racePc["tui"] = "read"
    /\ IF find_open(raceRead["tui"]) # 0
       THEN /\ RaceAt("tui", "refused", raceRead["tui"])
            /\ BackToIdle
            /\ notify("An entry is already running.", <<>>, TRUE)
            /\ draw(entries, day_offset, week_offset)
            /\ UNCHANGED <<file, entries, focus_section>>
       ELSE /\ RaceAt("tui", "checked", raceRead["tui"])
            /\ UNCHANGED tuiVars
    /\ UNCHANGED <<keyboard, layVars, clampVars, aggVars>>

\* append_entry, reload_entries, notify, and back to the loop
TuiStartAppend ==
    /\ racePc["tui"] = "checked"
    /\ \E now \in Clock :
          file' = append_entry(file, Entry(now, None, prompt_text))
    /\ Readable(file')
    /\ entries' = read_entries(file')
    /\ BackToIdle
    /\ notify("Started: ", prompt_text, FALSE)
    /\ draw(entries', day_offset, week_offset)
    /\ RaceAt("tui", "done", raceRead["tui"])
    /\ UNCHANGED <<focus_section, keyboard, layVars, clampVars, aggVars>>

\* what a step of the other front-end leaves alone
otherFrame ==
    UNCHANGED <<entries, message, message_error, focus_section, day_offset,
                week_offset, mode, buffer, timeout, keyboard, layVars,
                clampVars, aggVars>>

\* command_start, TimeLogApp.start_entry: entries = read_entries()
OtherStartRead ==
    /\ racePc["other"] = "idle"
    /\ Readable(file)
    /\ RaceAt("other", "read", read_entries(file))
    /\ file' = file
    /\ otherFrame

\* require_no_open(entries); if find_open(entries) is not None: return
OtherStartCheck ==
    /\ racePc["other"] = "read"
    /\ RaceAt("other",
              IF find_open(raceRead["other"]) # 0 THEN "refused" ELSE "checked",
              raceRead["other"])
    /\ file' = file
    /\ otherFrame

\* append_entry(new_entry)
OtherStartAppend ==
    /\ racePc["other"] = "checked"
    /\ \E when \in Clock, text \in CliTexts :
          file' = append_entry(file, Entry(when, None, text))
    /\ RaceAt("other", "done", raceRead["other"])
    /\ otherFrame

RaceNext ==
    \/ TuiStartRead
    \/ TuiStartCheck
    \/ TuiStartAppend
    \/ OtherStartRead
    \/ OtherStartCheck
    \/ OtherStartAppend

RaceSpec == RaceInit /\ [][RaceNext]_vars

\* ----------------------------------------- the layout engine on its own
\* Lists of minimum heights _shrink_to_total is applied to
MinLists == UNION {[1..n -> 1..MaxMin] : n \in 1..MaxPanels}

\* The dashboard at rest, while the layout engine is exercised
TuiAtRest ==
    /\ file = <<>>
    /\ entries = <<>>
    /\ message = Message("", <<>>)
    /\ message_error = FALSE
    /\ focus_section = "day"
    /\ day_offset = 0
    /\ week_offset = 0
    /\ mode = "Idle"
    /\ buffer = <<>>
    /\ timeout = TimeoutMs
    /\ keyboard = {}

LayoutInit ==
    /\ TuiAtRest
    /\ layTotal \in (0 - 2)..MaxT
    /\ layValues \in MinLists
    /\ layHeights = <<>>
    /\ layShrunk = <<>>
    /\ ShrIdle
    /\ ClampIdle
    /\ AggIdle
    /\ RaceIdle

\* allocate_left_heights(total)
Allocate ==
    /\ layHeights = <<>>
    /\ layHeights' = allocate_left_heights(layTotal)
    /\ UNCHANGED <<tuiVars, keyboard, layTotal, layValues, layShrunk, shrVars,
                   clampVars, aggVars, raceVars>>

\* _shrink_to_total(values, total)
Shrink ==
    /\ layShrunk = <<>>
    /\ layShrunk' = _shrink_to_total(layValues, layTotal)
    /\ UNCHANGED <<tuiVars, keyboard, layTotal, layValues, layHeights, shrVars,
                   clampVars, aggVars, raceVars>>

LayoutNext ==
    \/ Allocate
    \/ Shrink

LayoutSpec == LayoutInit /\ [][LayoutNext]_vars

\* ------------------------------------ _shrink_to_total, one step at a time
\* The lists it is given: lists of small minimums, and the minimums of
\* allocate_left_heights
ShrinkInit ==
    /\ TuiAtRest
    /\ layTotal \in (0 - 2)..MaxT
    /\ layValues \in MinLists \cup {Mins}
    /\ layHeights = <<>>
    /\ layShrunk = <<>>
    /\ ShrIdle
    /\ ClampIdle
    /\ AggIdle
    /\ RaceIdle

shrFrame == UNCHANGED <<tuiVars, keyboard, layTotal, layValues, layHeights,
                        layShrunk, clampVars, aggVars, raceVars>>

\* the call: total <= 0 returns zeros, else result = values[:]
ShrinkEnter ==
    /\ shrPc = "idle"
    /\ IF layTotal <= 0
       THEN /\ shrResult' = [i \in 1..Len(layValues) |-> 0]
            /\ shrPc' = "done"
       ELSE /\ shrResult' = layValues
            /\ shrPc' = "while"
    /\ shrIdx' = 0
    /\ shrFrame

\* ShrinkTest going on until the sum fits, whether or not a panel is above 1
ShrinkTestUntilFits ==
    /\ shrPc = "while"
    /\ IF Sum(shrResult) > layTotal
       THEN shrPc' = "for" /\ shrIdx' = 1
       ELSE shrPc' = "done" /\ shrIdx' = shrIdx
    /\ shrResult' = shrResult
    /\ shrFrame

\* the test of the while loop
ShrinkTest ==
    /\ shrPc = "while"
    /\ IF /\ Sum(shrResult) > layTotal
          /\ \E i \in 1..Len(shrResult) : shrResult[i] > 1
       THEN shrPc' = "for" /\ shrIdx' = 1
       ELSE shrPc' = "done" /\ shrIdx' = shrIdx
    /\ shrResult' = shrResult
    /\ shrFrame

\* ShrinkIter decrementing the largest panel instead of the panel at idx
ShrinkIterLargest ==
    /\ shrPc = "for"
    /\ IF shrIdx > Len(shrResult) \/ Sum(shrResult) <= layTotal
       THEN /\ shrPc' = "while"
            /\ UNCHANGED <<shrResult, shrIdx>>
       ELSE LET top == CHOOSE i \in 1..Len(shrResult) :
                          \A j \in 1..Len(shrResult) : shrResult[j] <= shrResult[i]
            IN  /\ shrResult' = (IF shrResult[top] > 1
                                 THEN [shrResult EXCEPT ![top] = @ - 1]
                                 ELSE shrResult)
                /\ shrIdx' = shrIdx + 1
                /\ shrPc' = shrPc
    /\ shrFrame

\* one turn of the for loop: the range is exhausted, or the sum fits
\* (break), or the panel at idx loses a row if it is above 1
ShrinkIter ==
    /\ shrPc = "for"
    /\ IF shrIdx > Len(shrResult) \/ Sum(shrResult) <= layTotal
       THEN /\ shrPc' = "while"
            /\ UNCHANGED <<shrResult, shrIdx>>
       ELSE /\ shrResult' = (IF shrResult[shrIdx] > 1
                             THEN [shrResult EXCEPT ![shrIdx] = @ - 1]
                             ELSE shrResult)
            /\ shrIdx' = shrIdx + 1
            /\ shrPc' = shrPc
    /\ shrFrame

ShrinkNext ==
    \/ ShrinkEnter
    \/ ShrinkTest
    \/ ShrinkIter

ShrinkSpec == ShrinkInit /\ [][ShrinkNext]_vars

\* -------------------------------- the layout computation, run to its end
\* The list Mins is the call of allocate_left_heights(total), any other list
\* a call of _shrink_to_total(values, total)
DirectEnter ==
    /\ layValues # Mins
    /\ ShrinkEnter

\* allocate_left_heights up to its first return or its call of
\* _shrink_to_total
AllocateEnter ==
    /\ layValues = Mins
    /\ layHeights = <<>>
    /\ shrPc = "idle"
    /\ IF 0 < layTotal /\ layTotal <= Sum(Mins)
       THEN ShrinkEnter
       ELSE /\ layHeights' = allocate_left_heights(layTotal)
            /\ UNCHANGED <<tuiVars, keyboard, layTotal, layValues, layShrunk,
                           shrVars, clampVars, aggVars, raceVars>>

\* return self._shrink_to_total(mins, total)
AllocateReturn ==
    /\ layValues = Mins
    /\ layHeights = <<>>
    /\ shrPc = "done"
    /\ layHeights' = shrResult
    /\ UNCHANGED <<tuiVars, keyboard, layTotal, layValues, layShrunk,
                   shrVars, clampVars, aggVars, raceVars>>

LayoutRunNext ==
    \/ DirectEnter
    \/ AllocateEnter
    \/ ShrinkTest
    \/ ShrinkIter
    \/ AllocateReturn

\* The computation is straight-line code on one thread: a step that can be
\* taken is taken
LayoutRunSpec ==
    ShrinkInit /\ [][LayoutRunNext]_vars /\ WF_vars(LayoutRunNext)

\* ----------------------------------------------- clamp_duration alone
\* Instants the entries, the windows and the clock are drawn from: local
\* midnight, 09:00, 09:45, the next midnight and 09:00 of the next day
ClampInstants == {0, 9 * Hour, 9 * Hour + 45 * Minute, Day, Day + 9 * Hour}

\* Entries of a snapshot: open ones, and closed ones that end after they start
ClampEntries ==
    {Entry(s, e, <<"a">>) : s \in ClampInstants, e \in {None}} \cup
    {Entry(w[1], w[2], <<"a">>) :
        w \in {x \in ClampInstants \X ClampInstants : x[1] < x[2]}}

\* Windows [start, end)
ClampWindows == {w \in ClampInstants \X ClampInstants : w[1] < w[2]}

\* The dashboard holds a snapshot of at least one entry; the window and now
\* are any
ClampInit ==
    /\ entries \in UNION {[1..n -> ClampEntries] : n \in 1..MaxEntries}
    /\ file = write_entries(entries)
    /\ message = Message("", <<>>)
    /\ message_error = FALSE
    /\ focus_section = "day"
    /\ day_offset = 0
    /\ week_offset = 0
    /\ mode = "Idle"
    /\ buffer = <<>>
    /\ timeout = TimeoutMs
    /\ keyboard = {}
    /\ layTotal = 0
    /\ layValues = <<>>
    /\ layHeights = <<>>
    /\ layShrunk = <<>>
    /\ ShrIdle
    /\ clampWindow \in ClampWindows
    /\ clampNow \in ClampInstants
    /\ clampDuration = None
    /\ today_total = None
    /\ AggIdle
    /\ RaceIdle

\* clamp_duration(entry, start, end, now) for the last entry of the snapshot
Clamp ==
    /\ clampDuration = None
    /\ clampDuration' = clamp_duration(entries[Len(entries)], clampWindow[1],
                                       clampWindow[2], clampNow)
    /\ UNCHANGED <<tuiVars, keyboard, layVars, clampWindow, clampNow,
                   today_total, aggVars, raceVars>>

\* the command line's clamp_duration for the same entry
CliClamp ==
    /\ clampDuration = None
    /\ clampDuration' = cli_clamp_duration(entries[Len(entries)],
                                           clampWindow[1], clampWindow[2],
                                           clampNow)
    /\ UNCHANGED <<tuiVars, keyboard, layVars, clampWindow, clampNow,
                   today_total, aggVars, raceVars>>

\* draw_comment_log: today_total = total_for_range(*day_window(now), now)
TotalForToday ==
    /\ today_total = None
    /\ \E utcoffset \in UtcOffsets :
          LET today == day_window(clampNow, utcoffset)
          IN  today_total' = total_for_range(entries, today[1], today[2],
                                             clampNow)
    /\ UNCHANGED <<tuiVars, keyboard, layVars, clampWindow, clampNow,
                   clampDuration, aggVars, raceVars>>

ClampNext ==
    \/ Clamp
    \/ CliClamp
    \/ TotalForToday

ClampSpec == ClampInit /\ [][ClampNext]_vars

\* --------------------------------------------------- the storage alone
\* Labels: up to MaxBuf characters out of a letter, a space, a form feed
\* and a run that reads as the head of a log line (it holds a '|')
StoredLabels == SeqsUpTo({"a", SP, FF, HeadOpen}, MaxBuf)

\* Entries: any start, no end or any end, any label
StoredEntries ==
    {Entry(start, end, text) :
        start \in Clock, end \in {None} \cup Clock, text \in StoredLabels}

\* Entries before the last one of a sequence: finished, with a plain label
EarlierEntries ==
    {Entry(start, end, <<"a", SP, "a">>) : start \in Clock, end \in Clock}

StorageInit ==
    /\ entries \in {earlier \o <<last>> :
                       earlier \in SeqsUpTo(EarlierEntries, MaxEntries - 1),
                       last \in StoredEntries}
    /\ file = <<>>
    /\ message = Message("", <<>>)
    /\ message_error = FALSE
    /\ focus_section = "day"
    /\ day_offset = 0
    /\ week_offset = 0
    /\ mode = "Idle"
    /\ buffer = <<>>
    /\ timeout = TimeoutMs
    /\ keyboard = {}
    /\ LayIdle

\* parse_entry(format_entry(entry)) for the last entry
RoundTrip ==
    /\ aggCall = "none"
    /\ aggCall' = "parse_entry"
    /\ LET raw == format_entry(entries[Len(entries)])
       IN  aggResult' = parse_entry([kind |-> "entry", start |-> raw.start,
                                     end |-> raw.end, text |-> raw.text])
    /\ UNCHANGED <<tuiVars, keyboard, layVars, clampVars, aggArg, raceVars>>

\* write_entries(entries), then read_entries(), which returns a list or
\* raises ValueError
WriteRead ==
    /\ aggCall = "none"
    /\ file' = write_entries(entries)
    /\ IF Readable(file')
       THEN aggCall' = "read_entries" /\ aggResult' = read_entries(file')
       ELSE aggCall' = "ValueError" /\ aggResult' = None
    /\ UNCHANGED <<entries, message, message_error, focus_section, day_offset,
                   week_offset, mode, buffer, timeout, keyboard, layVars,
                   clampVars, aggArg, raceVars>>

StorageNext ==
    \/ RoundTrip
    \/ WriteRead

StorageSpec == StorageInit /\ [][StorageNext]_vars

\* ------------------------------------------------- the aggregates alone
\* Snapshots of up to MaxTagged entries, one after the other from 09:00 as
\* a log holds them: 09:00-10:00, 10:00-11:30, 11:30-12:00, 12:00-13:00 ...
SlotLength(i) == 30 * Minute * (1 + (i % 3))

RECURSIVE SlotStart(_)
SlotStart(i) ==
    IF i = 1 THEN 9 * Hour ELSE SlotStart(i - 1) + SlotLength(i - 1)

\* Tag names, one for each entry
Letters == <<"a", "b", "c", "d", "e", "f", "g", "h", "i">>

\* Labels: one tag of the entry's own, the two tags "#a #b", the tag "#a"
\* twice, and no tag at all ("x #": a lone '#' is no tag)
OwnLabel(i) == <<"#", Letters[i]>>
SharedLabel == <<"#", "a", SP, "#", "b">>
DoubledLabel == <<"#", "a", SP, "#", "a">>
PlainLabel == <<"x", SP, "#">>

SlotLabels(i) ==
    {OwnLabel(i), SharedLabel}
      \cup (IF i <= 2 THEN {PlainLabel} ELSE {})
      \cup (IF i = 1 THEN {DoubledLabel} ELSE {})

RECURSIVE LabelLists(_)
LabelLists(n) ==
    IF n = 0 THEN {<<>>}
    ELSE {Append(labels, label) :
             labels \in LabelLists(n - 1), label \in SlotLabels(n)}

\* the last entry may be open
AggSnapshots ==
    UNION {{[i \in 1..n |->
               Entry(SlotStart(i),
                     IF i = n /\ open THEN None ELSE SlotStart(i + 1),
                     labels[i])] :
              labels \in LabelLists(n), open \in BOOLEAN} :
           n \in 0..MaxTagged}

\* Windows: the day, the week, a window that cuts the first two entries,
\* a window that starts after the first entry, and the next day
AggWindows ==
    {day_window(0, 0), week_window(0, 0),
     <<9 * Hour + 30 * Minute, 11 * Hour>>, <<10 * Hour, 17 * Hour>>,
     <<Day, 2 * Day>>}

\* now: in the first entry, and after the last
AggNows == {9 * Hour + 45 * Minute, 17 * Hour}

\* limit: int = 6
Limit == 6

AggInit ==
    /\ entries \in AggSnapshots
    /\ file = write_entries(entries)
    /\ message = Message("", <<>>)
    /\ message_error = FALSE
    /\ focus_section = "day"
    /\ day_offset = 0
    /\ week_offset = 0
    /\ mode = "Idle"
    /\ buffer = <<>>
    /\ timeout = TimeoutMs
    /\ keyboard = {}
    /\ layTotal = 0
    /\ layValues = <<>>
    /\ layHeights = <<>>
    /\ layShrunk = <<>>
    /\ ShrIdle
    /\ clampWindow \in AggWindows
    /\ clampNow \in AggNows
    /\ clampDuration = None
    /\ today_total = None
    /\ AggIdle
    /\ RaceIdle

\* what a call leaves alone
aggFrame ==
    UNCHANGED <<tuiVars, keyboard, layVars, clampVars, aggArg, raceVars>>

\* TerminalUI.total_for_range(start_utc, end_utc, now)
TuiTotal ==
    /\ aggCall = "none"
    /\ aggCall' = "total_for_range"
    /\ aggResult' = total_for_range(entries, clampWindow[1], clampWindow[2],
                                    clampNow)
    /\ aggFrame

\* TimeLogApp.total_for_range(start_utc, end_utc, now)
UiTotal ==
    /\ aggCall = "none"
    /\ aggCall' = "ui_total_for_range"
    /\ aggResult' = ui_total_for_range(entries, clampWindow[1], clampWindow[2],
                                       clampNow)
    /\ aggFrame

\* summarize(entries, start, end, now)
CliSummarize ==
    /\ aggCall = "none"
    /\ aggCall' = "summarize"
    /\ aggResult' = summarize(entries, clampWindow[1], clampWindow[2], clampNow)
    /\ aggFrame

\* TerminalUI.top_tasks_for_range(start_utc, end_utc, now)
TopTasks ==
    /\ aggCall = "none"
    /\ aggCall' = "top_tasks_for_range"
    /\ aggResult' = top_tasks_for_range(entries, clampWindow[1], clampWindow[2],
                                        clampNow, Limit)
    /\ aggFrame

\* TerminalUI.summarize_entries(start_utc, end_utc, now)
SummarizeEntries ==
    /\ aggCall = "none"
    /\ aggCall' = "summarize_entries"
    /\ aggResult' = summarize_entries(entries, clampWindow[1], clampWindow[2],
                                      clampNow)
    /\ aggFrame

AggNext ==
    \/ TuiTotal
    \/ UiTotal
    \/ CliSummarize
    \/ TopTasks
    \/ SummarizeEntries

AggSpec == AggInit /\ [][AggNext]_vars

\* --------------------------------------------------- check_overlap alone
\* Instants of the entries, the candidate and now
OverlapInstants == 0..(MaxNow + 2)

\* Entries of a log: any start, no end or any end
OverlapEntries ==
    {Entry(start, end, <<"a">>) :
        start \in OverlapInstants, end \in {None} \cup OverlapInstants}

\* Candidates: open, or ending after they start
OverlapCandidates == {c \in OverlapEntries : c.end = None \/ c.end > c.start}

OverlapInit ==
    /\ entries \in SeqsUpTo(OverlapEntries, MaxEntries)
    /\ file = write_entries(entries)
    /\ message = Message("", <<>>)
    /\ message_error = FALSE
    /\ focus_section = "day"
    /\ day_offset = 0
    /\ week_offset = 0
    /\ mode = "Idle"
    /\ buffer = <<>>
    /\ timeout = TimeoutMs
    /\ keyboard = {}
    /\ layTotal = 0
    /\ layValues = <<>>
    /\ layHeights = <<>>
    /\ layShrunk = <<>>
    /\ ShrIdle
    /\ clampWindow = <<0, 0>>
    /\ clampNow \in OverlapInstants
    /\ clampDuration = None
    /\ today_total = None
    /\ aggCall = "none"
    /\ aggArg \in OverlapCandidates
    /\ aggResult = None
    /\ RaceIdle

\* check_overlap(entries, candidate, now)
CheckOverlap ==
    /\ aggCall = "none"
    /\ aggCall' = "check_overlap"
    /\ aggResult' = check_overlap(entries, aggArg, clampNow)
    /\ aggFrame

OverlapNext ==
    \/ CheckOverlap

OverlapSpec == OverlapInit /\ [][OverlapNext]_vars

\* ------------------------------------------- the panel heights of draw
\* content_height = max(0, height - footer_height)
ContentHeight(term_height) == Max(0, term_height - FooterHeight)

\* <<current_task_height, comment_box_height>> of the right column
RightHeights(term_height) ==
    LET content_height == ContentHeight(term_height)
        top_height == LeftHeights(term_height)[3]
        comment_box_height ==
            Min(top_height, Max(content_height - MinCurrentHeight, 0))
        current_task_height ==
            Max(content_height - comment_box_height, MinCurrentHeight)
    IN  <<current_task_height, comment_box_height>>

\* Terminal heights getmaxyx returns: from no row at all up to the height
\* at which the left column has MaxT rows to share
TermHeights == 0..(MaxT + StatusHeight + FooterHeight)

PanelInit ==
    /\ TuiAtRest
    /\ layTotal = 0
    /\ layValues = <<>>
    /\ layHeights = <<>>
    /\ layShrunk = <<>>
    /\ ShrIdle
    /\ ClampIdle
    /\ aggCall = "none"
    /\ aggArg \in TermHeights
    /\ aggResult = None
    /\ RaceIdle

\* draw: the left column, day_height, week_height, top_height
DrawLeft ==
    /\ aggCall = "none"
    /\ layHeights = <<>>
    /\ layTotal' = Max(ContentHeight(aggArg) - StatusHeight, 0)
    /\ layHeights' = LeftHeights(aggArg)
    /\ UNCHANGED <<tuiVars, keyboard, layValues, layShrunk, shrVars,
                   clampVars, aggVars, raceVars>>

\* draw: the right column, current_task_height and comment_box_height
DrawRight ==
    /\ aggCall = "none"
    /\ layHeights # <<>>
    /\ aggCall' = "draw"
    /\ aggResult' = RightHeights(aggArg)
    /\ UNCHANGED <<tuiVars, keyboard, layVars, clampVars, aggArg, raceVars>>

PanelNext ==
    \/ DrawLeft
    \/ DrawRight

PanelSpec == PanelInit /\ [][PanelNext]_vars

\* ------------------------------------ one command, run to its exit
\* The arguments of a command line: start and stop take --at, add takes
\* --start and --end
CliArgs ==
    {[cmd |-> c, at |-> t, end |-> None, text |-> x] :
        c \in {"start", "stop"}, t \in Clock, x \in CliTexts} \cup
    {[cmd |-> "add", at |-> t, end |-> e, text |-> x] :
        t \in Clock, e \in Clock, x \in CliTexts}

CliInit ==
    /\ TuiInit
    /\ keyboard = {}
    /\ layTotal = 0
    /\ layValues = <<>>
    /\ layHeights = <<>>
    /\ layShrunk = <<>>
    /\ ShrIdle
    /\ ClampIdle
    /\ aggCall = "none"
    /\ aggArg \in CliArgs
    /\ aggResult = None
    /\ RaceIdle

\* what a command leaves alone
cliFrame ==
    UNCHANGED <<entries, message, message_error, focus_section, day_offset,
                week_offset, mode, buffer, timeout, keyboard, layVars,
                clampVars, aggArg, raceVars>>

\* command_start: require_no_open exits, or the entry is appended
CliStart ==
    /\ aggCall = "none"
    /\ aggArg.cmd = "start"
    /\ Readable(file)
    /\ aggCall' = "command_start"
    /\ IF find_open(read_entries(file)) # 0
       THEN /\ aggResult' = "SystemExit"
            /\ file' = file
       ELSE /\ aggResult' = "Started"
            /\ file' = append_entry(file, Entry(aggArg.at, None, aggArg.text))
    /\ cliFrame

\* command_stop applying the floor of the dashboard to a stop time that is
\* not after the start, where the command exits
CliStopFloored ==
    /\ aggCall = "none"
    /\ aggArg.cmd = "stop"
    /\ Readable(file)
    /\ aggCall' = "command_stop"
    /\ LET read == read_entries(file)
           open_index == find_open(read)
       IN  IF open_index = 0
           THEN /\ aggResult' = "SystemExit"
                /\ file' = file
           ELSE /\ aggResult' = "Stopped"
                /\ file' = write_entries(
                             [read EXCEPT ![open_index] =
                                 Entry(read[open_index].start,
                                       stop_instant(read[open_index].start,
                                                    aggArg.at),
                                       read[open_index].text)])
    /\ cliFrame

\* command_stop: exits with no open entry or with a stop time not after
\* the start, or the log is written with the entry closed
CliStop ==
    /\ aggCall = "none"
    /\ aggArg.cmd = "stop"
    /\ Readable(file)
    /\ aggCall' = "command_stop"
    /\ LET read == read_entries(file)
           open_index == find_open(read)
       IN  IF open_index = 0
           THEN /\ aggResult' = "SystemExit"
                /\ file' = file
           ELSE IF aggArg.at <= read[open_index].start
           THEN /\ aggResult' = "SystemExit"
                /\ file' = file
           ELSE /\ aggResult' = "Stopped"
                /\ file' = write_entries(
                             [read EXCEPT ![open_index] =
                                 Entry(read[open_index].start, aggArg.at,
                                       read[open_index].text)])
    /\ cliFrame

\* command_add: exits with an end not after the start or with an overlap,
\* or the entry is appended
CliAdd ==
    /\ aggCall = "none"
    /\ aggArg.cmd = "add"
    /\ Readable(file)
    /\ aggCall' = "command_add"
    /\ LET new_entry == Entry(aggArg.at, aggArg.end, aggArg.text)
       IN  IF aggArg.end <= aggArg.at
           THEN /\ aggResult' = "SystemExit"
                /\ file' = file
           ELSE IF check_overlap(read_entries(file), new_entry,
                                 aggArg.end)[1] # 0
           THEN /\ aggResult' = "SystemExit"
                /\ file' = file
           ELSE /\ aggResult' = "Added"
                /\ file' = append_entry(file, new_entry)
    /\ cliFrame

CliRunNext ==
    \/ CliStart
    \/ CliStop
    \/ CliAdd

CliRunSpec == CliInit /\ [][CliRunNext]_vars

\* -------------------------------------------- properties: layout engine
NonNegative(h) == \A i \in 1..Len(h) : h[i] >= 0
AtLeastOne(h) == \A i \in 1..Len(h) : h[i] >= 1
AllZero(h) == \A i \in 1..Len(h) : h[i] = 0

\* C8: for every total T > 0 the heights of allocate_left_heights, and of
\* _shrink_to_total applied to minimums that do not fit T, sum to exactly T,
\* also when T is smaller than the number of panels.
C8_HeightsSumToTotal ==
    /\ (layHeights # <<>> /\ layTotal > 0) => Sum(layHeights) = layTotal
    /\ (layShrunk # <<>> /\ layTotal > 0 /\ Sum(layValues) >= layTotal)
          => Sum(layShrunk) = layTotal

\* C9: every height is >= 1 whenever T >= N, no height is negative for any
\* T, and all heights are 0 when T <= 0.
C9_HeightLowerBounds ==
    /\ layHeights # <<>> =>
          /\ NonNegative(layHeights)
          /\ layTotal >= Len(layHeights) => AtLeastOne(layHeights)
          /\ layTotal <= 0 => AllZero(layHeights)
    /\ layShrunk # <<>> =>
          /\ NonNegative(layShrunk)
          /\ layTotal >= Len(layShrunk) => AtLeastOne(layShrunk)
          /\ layTotal <= 0 => AllZero(layShrunk)

\* C9 witness: the minimums were shrunk to fit a total that is at least the
\* number of panels
C9_Witness ==
    /\ layHeights # <<>>
    /\ layTotal >= Len(layHeights)
    /\ layTotal < Sum(Mins)
    /\ layShrunk # <<>>
    /\ layTotal >= Len(layShrunk)
    /\ Sum(layValues) > layTotal

\* The share floor((T - sum(m)) * w_i / sum(w)) of panel i
FloorShare(total, i) == ((total - Sum(Mins)) * Weights[i]) \div Sum(Weights)

\* The rows truncation leaves over
LeftOver(total) ==
    (total - Sum(Mins))
        - (FloorShare(total, 1) + FloorShare(total, 2) + FloorShare(total, 3))

\* C10: when T exceeds the sum of the minimums, day and week get their
\* minimum plus the floor of their weighted share, top gets its minimum,
\* its floored share and all rows left over, and the heights sum to T.
C10_WeightedShares ==
    (layHeights # <<>> /\ layTotal > Sum(Mins)) =>
        /\ layHeights[1] = Mins[1] + FloorShare(layTotal, 1)
        /\ layHeights[2] = Mins[2] + FloorShare(layTotal, 2)
        /\ layHeights[3] = Mins[3] + FloorShare(layTotal, 3) + LeftOver(layTotal)
        /\ Sum(layHeights) = layTotal

\* C10 witness: a total above the minimums whose shares do not divide evenly
C10_Witness ==
    /\ layHeights # <<>>
    /\ layTotal > Sum(Mins)
    /\ LeftOver(layTotal) > 0

\* _shrink_to_total is at work on minimums that do not fit a total T > 0
Shrinking ==
    /\ shrPc # "idle"
    /\ layTotal > 0
    /\ Sum(layValues) >= layTotal

\* Step by step, _shrink_to_total arrives at what the operator computes
ShrinkAgrees ==
    shrPc = "done" => shrResult = _shrink_to_total(layValues, layTotal)

\* The step takes one row from panel i, which was above 1
TakesRowFrom(i) ==
    /\ shrResult[i] > 1
    /\ shrResult' = [shrResult EXCEPT ![i] = @ - 1]

IsLargest(h, i) == \A j \in 1..Len(h) : h[j] <= h[i]

\* C11: when the minimums sum to T or more (T > 0), the shrink goes by
\* single-row decrements, each applied to a panel that is the largest at
\* that moment, never takes a panel below 1, and makes no decrement once
\* the sum fits T.
C11_ShrinksLargest ==
    [][(Shrinking /\ shrResult' # shrResult) =>
          /\ Sum(shrResult) > layTotal
          /\ \E i \in 1..Len(shrResult) :
                TakesRowFrom(i) /\ IsLargest(shrResult, i)]_vars

\* The heights are the values lowered by k rows, the first i panels by one
\* row more, but no panel under 1
InRounds(values, heights) ==
    \E k \in 0..Sum(values), i \in 0..Len(values) :
        \A j \in 1..Len(values) :
            heights[j] = Max(1, values[j] - (IF j <= i THEN k + 1 ELSE k))

\* C11, amended: the shrink goes by single-row decrements applied in panel
\* order, first panel to last, round after round, passing over panels that
\* are at 1; it never takes a panel below 1, makes no decrement once the sum
\* fits T, and ends when the sum is T or every panel is at 1.
C11_ShrinksInPanelOrder ==
    /\ [](Shrinking =>
            /\ InRounds(layValues, shrResult)
            /\ shrPc = "done" =>
                  \/ Sum(shrResult) = layTotal
                  \/ \A i \in 1..Len(shrResult) : shrResult[i] = 1)
    /\ [][(Shrinking /\ shrResult' # shrResult) =>
            /\ Sum(shrResult) > layTotal
            /\ \E i \in 1..Len(shrResult) : TakesRowFrom(i)]_vars

\* C11 witness: the shrink has ended at the total, having taken a row from
\* a panel while another one stayed more than one row higher
C11_Witness ==
    /\ Shrinking
    /\ shrPc = "done"
    /\ Sum(layValues) > layTotal
    /\ Sum(shrResult) = layTotal
    /\ \E i, j \in 1..Len(shrResult) :
          /\ shrResult[i] < layValues[i]
          /\ shrResult[j] > shrResult[i] + 1

\* -------------------------------------------- properties: start and stop
\* The intervals the log holds, in order, as the store reads them (a line
\* the store cannot read holds none)
Stored(f) ==
    LET lines == SelectSeq(f, HasTimeColumns)
    IN  [i \in 1..Len(lines) |-> parse_entry(lines[i])]

OpenIndexes(es) == {i \in 1..Len(es) : es[i].end = None}
HasOpen(f) == OpenIndexes(Stored(f)) # {}
LastOpen(es) == CHOOSE i \in OpenIndexes(es) : \A j \in OpenIndexes(es) : j <= i
OnlyWhitespace(text) == \A i \in 1..Len(text) : IsSpace(text[i])

\* The steps of the prompt on Enter, and of the loop on the stop key
EnterKey ==
    PromptEnterEmpty \/ PromptEnterRunning \/ PromptEnterStart \/ PromptEnterRaise
StopKey == KeyStopNoOpen \/ KeyStop

\* While the dashboard runs, read_entries returns normally
ReadableWhileRunning == mode \in {"Idle", "Prompting"} => Readable(file)

\* A label of line heads leaves no line in the log that read_entries
\* cannot read: Enter in the prompt never takes the step PromptEnterRaise
HeadsReadable ==
    /\ Readable(file)
    /\ ~ENABLED PromptEnterRaise

\* C1: from a log with at most one open interval, after any sequence of
\* dashboard events the log still holds at most one open interval.
C1_AtMostOneOpen == Cardinality(OpenIndexes(Stored(file))) <= 1

\* C2: Enter in the prompt with a non-empty trimmed text, on a log with no
\* open interval, appends exactly one interval (start a clock reading, end
\* unset, label the trimmed text) behind the unchanged existing ones,
\* returns to Idle and sets a non-error notification.
C2_ConfirmedStartAppends ==
    [][(mode = "Prompting" /\ EnterKey /\ ~OnlyWhitespace(buffer)
            /\ ~HasOpen(file))
        => /\ \E now \in Clock :
                Stored(file') = Append(Stored(file), Entry(now, None, strip(buffer)))
           /\ mode' = "Idle"
           /\ ~message_error']_vars

\* C3: Esc in the prompt (whatever was typed), Enter with empty or
\* whitespace-only text, and Enter while the log holds an open interval
\* leave the log unchanged and return to Idle; the notification is an error
\* except after Esc.
C3_RejectedStartLeavesStore ==
    [][(mode = "Prompting"
            /\ \/ PromptEscape
               \/ EnterKey /\ (OnlyWhitespace(buffer) \/ HasOpen(file)))
        => /\ file' = file
           /\ mode' = "Idle"
           /\ message_error' = ~PromptEscape]_vars

\* C3 witness: a start was refused because an interval was open
C3_Witness ==
    /\ mode = "Idle"
    /\ message.fmt = "An entry is already running."
    /\ message_error
    /\ HasOpen(file)

C5_StopWithNothingOpen ==
    [][(mode = "Idle" /\ StopKey /\ ~HasOpen(file))
        => /\ file' = file
           /\ message_error'
           /\ message'.fmt = "No active entry to stop."
           /\ mode' = "Idle"]_vars

\* C5 witness: a stop was refused
C5_Witness ==
    /\ mode = "Idle"
    /\ message.fmt = "No active entry to stop."
    /\ message_error
    /\ ~HasOpen(file)

\* C6: whatever the clock reads, every stored interval whose end is set
\* ends strictly after it starts.
C6_PositiveDuration ==
    \A i \in 1..Len(Stored(file)) :
        Stored(file)[i].end # None => Stored(file)[i].end > Stored(file)[i].start

\* C7: a stop sets the end of the last interval whose end is unset and
\* nothing else: its start and label, every other interval, and the order
\* and number of the stored intervals are as before the rewrite.
C7_StopFrame ==
    [][KeyStop =>
        LET old == Stored(file)
            new == Stored(file')
            idx == LastOpen(old)
        IN  /\ Len(new) = Len(old)
            /\ \A i \in 1..Len(old) : i # idx => new[i] = old[i]
            /\ new[idx].start = old[idx].start
            /\ new[idx].text = old[idx].text
            /\ new[idx].end # None]_vars

\* C7 witness: a stop rewrote a log of several intervals
C7_Witness ==
    /\ message.fmt = "Stopped: "
    /\ Len(Stored(file)) >= 2
    /\ ~HasOpen(file)

\* -------------------------------------------- properties: scrolling
\* The offsets scroll_active(delta) hands to the next draw
ScrolledDay(delta) ==
    IF focus_section = "day" THEN Max(0, day_offset + delta) ELSE day_offset
ScrolledWeek(delta) ==
    IF focus_section = "week" THEN Max(0, week_offset + delta) ELSE week_offset

\* Steps of the loop that end with a draw and do not scroll
DrawsUnscrolled ==
    \/ KeyTimeout
    \/ KeyTab
    \/ KeyReload
    \/ KeyStopNoOpen
    \/ KeyStop
    \/ PromptEscape
    \/ PromptEnterEmpty
    \/ PromptEnterRunning
    \/ PromptEnterStart

\* The step ends with a draw that was handed the offsets scrolled by delta
DrawsScrolledBy(delta) ==
    /\ mode' = "Idle"
    /\ \/ delta = 0 - 1 /\ KeyUp
       \/ delta = 1 /\ KeyDown
       \/ delta = 0 /\ DrawsUnscrolled

\* The inner height of a panel: its height less the two border rows
Viewport(height) == Max(0, height - 2)

InRange(offset, row_count, viewport_height) ==
    /\ 0 <= offset
    /\ offset <= Max(0, row_count - viewport_height)

\* Of every draw the step can have ended with (the offsets it was handed,
\* the terminal height, the instant and the zone it ran in), Holds is true
\* of the offset, row count and height of the day and of the week panel
AfterEveryDraw(Holds(_, _, _)) ==
    \A delta \in {0 - 1, 0, 1} :
        DrawsScrolledBy(delta) =>
          \A h \in Heights, now \in Clock, utcoffset \in UtcOffsets :
            LET day == day_window(now, utcoffset)
                week == week_window(now, utcoffset)
                day_rows == summarize_entries(entries', day[1], day[2], now)
                week_rows == summarize_entries(entries', week[1], week[2], now)
                day_height == HeightTable[h][1]
                week_height == HeightTable[h][2]
            IN  (/\ day_offset' = ClampOffset(ScrolledDay(delta), day_height, day_rows)
                 /\ week_offset' = ClampOffset(ScrolledWeek(delta), week_height,
                                               week_rows))
                => /\ Holds(day_offset', Len(day_rows), day_height)
                   /\ Holds(week_offset', Len(week_rows), week_height)

InRangeOfPanel(offset, row_count, height) ==
    InRange(offset, row_count, Viewport(height))

InRangeOfDrawnPanel(offset, row_count, height) ==
    /\ offset >= 0
    /\ Viewport(height) >= 1 => InRange(offset, row_count, Viewport(height))

DayRows(snapshot, now, utcoffset) ==
    LET w == day_window(now, utcoffset)
    IN  Len(summarize_entries(snapshot, w[1], w[2], now))

DrawnFrom(d_in, w_in) ==
    \E h \in Heights, now \in Clock, utcoffset \in UtcOffsets :
        /\ day_offset' = draw_day_offset(entries', d_in, h, now, utcoffset)
        /\ week_offset' = draw_week_offset(entries', w_in, h, now, utcoffset)

\* C13: in Idle, the up key takes 1 from the focused panel's offset and the
\* down key adds 1 to it, the result never below 0; the other panel's
\* offset, the focus, the snapshot and the log are as before, and the loop
\* stays in Idle (the offsets then go through the clamp of the next draw).
C13_NavigationFrame ==
    [][\A delta \in {0 - 1, 1} :
          (IF delta = 1 THEN KeyDown ELSE KeyUp) =>
            /\ mode' = "Idle"
            /\ focus_section' = focus_section
            /\ entries' = entries
            /\ file' = file
            /\ IF focus_section = "day"
               THEN DrawnFrom(Max(0, day_offset + delta), week_offset)
               ELSE DrawnFrom(day_offset, Max(0, week_offset + delta))]_vars

\* C13 witness: the week panel has the focus and was scrolled down while
\* the day panel stayed at the top
C13_Witness ==
    /\ mode = "Idle"
    /\ focus_section = "week"
    /\ week_offset = 1
    /\ day_offset = 0

\* Steps that are followed by no draw: into the prompt, inside it, and out
\* of the loop
DrawsNothing ==
    \/ KeyQuit
    \/ KeyStart
    \/ PromptChar
    \/ PromptBackspace
    \/ PromptEnterRaise

\* C14: the focus-switch key moves the focus to the other panel and resets
\* neither offset; reload, start, stop and timeout set or reset no offset
\* either; an offset changes only by a navigation key on the focused panel
\* or by the clamp of a draw.
C14_OffsetsPersist ==
    [][/\ KeyTab => focus_section' # focus_section
       /\ DrawsUnscrolled => DrawnFrom(day_offset, week_offset)
       /\ DrawsNothing => UNCHANGED <<day_offset, week_offset>>
       /\ day_offset' > day_offset => KeyDown /\ focus_section = "day"
       /\ week_offset' > week_offset => KeyDown /\ focus_section = "week"
       /\ focus_section' \in {"day", "week"}]_vars

\* C14 witness: the day panel was scrolled, the focus moved to the week
\* panel and the log was reloaded, and the day offset still stands
C14_Witness ==
    /\ mode = "Idle"
    /\ focus_section = "week"
    /\ day_offset = 1
    /\ message.fmt = "Reloaded log."

\* -------------------------------------------- properties: the loop
\* Events that are no start and no stop
PassiveKey ==
    \/ KeyTimeout
    \/ KeyUp
    \/ KeyDown
    \/ KeyTab
    \/ KeyReload
    \/ KeyQuit

\* C15: the log is changed only by a start that was confirmed and accepted
\* or by a stop of an open interval: timeout, navigation, focus switch,
\* reload and quit leave it unchanged, and a timeout also leaves the
\* snapshot, the focus and the notification unchanged.
C15_OnlyStartAndStopWrite ==
    [][/\ PassiveKey => file' = file
       /\ KeyTimeout =>
            /\ entries' = entries
            /\ focus_section' = focus_section
            /\ message' = message
            /\ message_error' = message_error
            /\ mode' = "Idle"
       /\ file' # file =>
            \/ KeyStop /\ HasOpen(file)
            \/ /\ EnterKey
               /\ ~OnlyWhitespace(buffer)
               /\ ~HasOpen(file)]_vars

\* C15 witness: a log with a comment line is as it was after a reload, a
\* focus switch and the quit key
C15_Witness ==
    /\ mode = "Exited"
    /\ message.fmt = "Reloaded log."
    /\ focus_section = "week"
    /\ \E i \in 1..Len(file) : IsSkipped(file[i])

\* The loop is running: the controller waits for a key, in the loop or in
\* the prompt
Running == mode \in {"Idle", "Prompting"}

\* C16: the loop ends exactly when a quit key arrives in Idle: the quit key
\* in Idle always ends it, and writes nothing; no other key, no timeout and
\* no key typed in the prompt ends it. An error raised inside prompt is
\* no key and is left aside.
C16_ExitsOnlyOnQuit ==
    [][/\ KeyQuit => mode' = "Exited" /\ file' = file
       /\ (Running /\ ~Running' /\ ~PromptError) => (mode = "Idle" /\ KeyQuit)
       /\ ~Running => file' = file]_vars

\* -------------------------------------------- properties: the prompt
\* C17: the buffer is the keys applied in order, from an empty buffer: a
\* character key appends one character, backspace removes the last one and
\* does nothing on an empty buffer; Enter returns the buffer trimmed, not
\* cancelled (start_entry goes on with the trimmed text), Esc returns a
\* cancelled, empty text (start_entry reports the cancel and writes nothing).
C17_PromptBuffer ==
    [][/\ KeyStart => buffer' = <<>>
       /\ PromptChar =>
            /\ Len(buffer') = Len(buffer) + 1
            /\ SubSeq(buffer', 1, Len(buffer)) = buffer
            /\ buffer'[Len(buffer')] \in keyboard
       /\ PromptBackspace =>
            buffer' = SubSeq(buffer, 1, Max(Len(buffer), 1) - 1)
       /\ PromptOtherKey => buffer' = buffer
       /\ (mode = "Prompting" /\ mode' = "Idle") =>
            /\ PromptEscape \/ EnterKey
            /\ PromptEscape <=> message'.fmt = "Start cancelled."
            /\ message'.fmt = "Started: " => message'.arg = strip(buffer)
            /\ message'.fmt = "Please enter a description." <=>
                  (EnterKey /\ strip(buffer) = <<>>)
            /\ message'.fmt = "Start cancelled." => file' = file]_vars

\* C17 witness: the prompt holds a buffer that Enter will trim
C17_Witness ==
    /\ mode = "Prompting"
    /\ Len(buffer) = MaxBuf
    /\ IsSpace(buffer[1])
    /\ ~OnlyWhitespace(buffer)

\* C18: while the prompt is open the read blocks, no timeout event is
\* delivered and the dashboard is not redrawn; every step that leaves the
\* prompt (Enter, Esc, an error) leaves the input timeout at 1000 ms, which
\* is what the loop reads with.
C18_BlockingWhilePrompting ==
    /\ [](/\ mode = "Prompting" => (timeout = Blocking /\ ~ENABLED KeyTimeout)
          /\ mode # "Prompting" => timeout = TimeoutMs)
    /\ [][mode = "Prompting" =>
            /\ mode' = "Prompting" =>
                  UNCHANGED <<day_offset, week_offset, message, message_error,
                              entries, file>>
            /\ mode' # "Prompting" => timeout' = TimeoutMs]_vars

\* C18 witness: the prompt was left by an error and the timeout is restored
C18_Witness ==
    /\ mode = "Crashed"
    /\ Readable(file)
    /\ timeout = TimeoutMs

\* ------------------------------------------ properties: the snapshot
\* The snapshot is the log as it reads now
Fresh == Readable(file) /\ entries = read_entries(file)

\* C19: the snapshot equals the log at startup, after the reload key and
\* after every start or stop that wrote the log; a timeout, a navigation
\* key, the focus switch and a refused or cancelled start or stop leave the
\* snapshot as it was, whatever the log holds by then.
C19_SnapshotRefreshPoints ==
    /\ Fresh
    /\ [][/\ KeyReload => Fresh'
          /\ (EnterKey /\ file' # file) => Fresh'
          /\ (StopKey /\ file' # file) => Fresh'
          /\ (\/ KeyTimeout \/ KeyUp \/ KeyDown \/ KeyTab
              \/ KeyStopNoOpen
              \/ PromptEscape \/ PromptEnterEmpty \/ PromptEnterRunning)
                => (entries' = entries)]_vars

\* ------------------------------------------ properties: clamp_duration
\* C20: for an open interval and any window, clamp_duration at now is
\* min(now, window end) - max(start, window start) when that is positive,
\* and zero otherwise; one open interval started at 09:00 and evaluated at
\* 09:45 gives a day total of 45 minutes.
C20_OpenIntervalClamped ==
    LET entry == entries[Len(entries)]
        span == Min(clampNow, clampWindow[2]) - Max(entry.start, clampWindow[1])
    IN  /\ (clampDuration # None /\ entry.end = None) =>
              clampDuration = (IF span > 0 THEN span ELSE 0)
        /\ (/\ today_total # None
            /\ entries = <<Entry(9 * Hour, None, <<"a">>)>>
            /\ clampNow = 9 * Hour + 45 * Minute) => today_total = 45 * Minute

\* C20 witness: the interval open since 09:00, evaluated at 09:45 over the
\* day: 45 minutes from clamp_duration and as the day total
C20_Witness ==
    /\ entries = <<Entry(9 * Hour, None, <<"a">>)>>
    /\ clampNow = 9 * Hour + 45 * Minute
    /\ clampWindow = <<0, Day>>
    /\ clampDuration = 45 * Minute
    /\ today_total = 45 * Minute

\* C21: for every interval, closed or open, every window and every now,
\* clamp_duration (the dashboard's and the command line's) returns a
\* duration that is not negative and not longer than the window.
C21_ClampWithinWindow ==
    clampDuration # None =>
        /\ clampDuration >= 0
        /\ clampDuration <= clampWindow[2] - clampWindow[1]

\* C21 witness: a closed interval that covers the window and runs past both
\* of its ends, clamped to the whole window
C21_Witness ==
    LET entry == entries[Len(entries)]
    IN  /\ entry.end # None
        /\ entry.start < clampWindow[1]
        /\ entry.end > clampWindow[2]
        /\ clampDuration = clampWindow[2] - clampWindow[1]

\* ---------------------------------------------- properties: aggregates
\* The part of an interval inside a window, at now
Clip(entry, window, now) ==
    LET entry_end == IF entry.end = None THEN now ELSE entry.end
        span == Min(entry_end, window[2]) - Max(entry.start, window[1])
    IN  IF span > 0 THEN span ELSE 0

ClipSum(es, window, now) ==
    Sum([i \in 1..Len(es) |-> Clip(es[i], window, now)])

\* The total a call returned
TotalReturned == IF aggCall = "summarize" THEN aggResult[1] ELSE aggResult

\* C22: the window total is the sum of the clipped durations of the
\* intervals, each taken alone (zero for no interval and for intervals all
\* outside the window), and the dashboard's total_for_range, the desktop
\* form's total_for_range and the command line's summarize return that
\* same value on the same input.
C22_TotalIsSumOfClips ==
    aggCall \in {"total_for_range", "ui_total_for_range", "summarize"} =>
        TotalReturned = ClipSum(entries, clampWindow, clampNow)

\* C22 witness: the desktop form's total over a window that cuts a closed
\* entry and the open entry after it: 30 minutes and 60 minutes
C22_Witness ==
    /\ aggCall = "ui_total_for_range"
    /\ Len(entries) = 2
    /\ entries[2].end = None
    /\ clampWindow = <<9 * Hour + 30 * Minute, 11 * Hour>>
    /\ aggResult = 90 * Minute

\* The label of an entry carries a tag: it is one of its tags, or the
\* label has no tag and the tag is the synthetic one
Carries(entry, tag) ==
    \E i \in 1..Len(TagsOrUntagged(entry)) : TagsOrUntagged(entry)[i] = tag

\* The clipped durations of the entries that carry a tag, each entry once
TagSum(es, tag, window, now) ==
    Sum([i \in 1..Len(es) |->
            IF Carries(es[i], tag) THEN Clip(es[i], window, now) ELSE 0])

\* Tags that some entry with a positive clipped duration carries
TagsInWindow(es, window, now) ==
    UNION {{TagsOrUntagged(es[i])[k] : k \in 1..Len(TagsOrUntagged(es[i]))} :
             i \in {j \in 1..Len(es) : Clip(es[j], window, now) > 0}}

\* C23: in the by-tag aggregation each tag's total is the sum of the full
\* clipped durations of the intervals with a positive clipped duration whose
\* label carries the tag, an interval counted once for each tag it carries
\* and an interval with no tag counted for "(untagged)".
C23_TagTotals ==
    aggCall = "top_tasks_for_range" =>
        \A k \in 1..Len(aggResult) :
            aggResult[k][2] =
                TagSum(entries, aggResult[k][1], clampWindow, clampNow)

\* The durations a ranking reports, added up
Reported(ranking) == Sum([k \in 1..Len(ranking) |-> ranking[k][2]])

\* C24: the durations in the list top_tasks_for_range returns, cut to its
\* limit, sum to no less than the total total_for_range returns.
C24_RankingCoversTotal ==
    aggCall = "top_tasks_for_range" =>
        Reported(aggResult) >= total_for_range(entries, clampWindow[1],
                                               clampWindow[2], clampNow)

\* C24, amended: they do whenever the intervals of the window carry no
\* more tags than the limit, so that the cut drops none.
C24_UncutRankingCoversTotal ==
    (/\ aggCall = "top_tasks_for_range"
     /\ Cardinality(TagsInWindow(entries, clampWindow, clampNow)) <= Limit) =>
        Reported(aggResult) >= total_for_range(entries, clampWindow[1],
                                               clampWindow[2], clampNow)

\* C24 witness: six intervals in the window with six tags, one tag each:
\* the ranking holds them all and reports exactly the total
C24_Witness ==
    /\ aggCall = "top_tasks_for_range"
    /\ Len(entries) = Limit
    /\ \A i \in 1..Len(entries) : entries[i].text = OwnLabel(i)
    /\ Len(aggResult) = Limit
    /\ Reported(aggResult) = ClipSum(entries, clampWindow, clampNow)

\* How many words of an entry's label name a tag
Occurrences(entry, tag) ==
    Cardinality({k \in 1..Len(TagsOrUntagged(entry)) :
                    TagsOrUntagged(entry)[k] = tag})

\* What the loop adds up for a tag: the clipped duration of an entry for
\* every word of its label that names the tag
Counted(es, tag, window, now) ==
    Sum([i \in 1..Len(es) |->
            Occurrences(es[i], tag) * Clip(es[i], window, now)])

\* Where a tag is first seen: the first entry with a positive clipped
\* duration that carries it, and the first word of its label that names it
FirstSeen(es, tag, window, now) ==
    LET seen == UNION {LET named == TagsOrUntagged(es[i])
                       IN  {<<i, k>> : k \in {j \in 1..Len(named) :
                                                 named[j] = tag}} :
                       i \in {j \in 1..Len(es) :
                                 Clip(es[j], window, now) > 0}}
    IN  CHOOSE first \in seen :
            \A other \in seen :
                \/ first[1] < other[1]
                \/ first[1] = other[1] /\ first[2] <= other[2]

\* A tag ranks before another: longer, or as long and seen first
RanksBefore(es, tag, other, window, now) ==
    LET mine == Counted(es, tag, window, now)
        theirs == Counted(es, other, window, now)
        first == FirstSeen(es, tag, window, now)
        second == FirstSeen(es, other, window, now)
    IN  \/ mine > theirs
        \/ /\ mine = theirs
           /\ \/ first[1] < second[1]
              \/ first[1] = second[1] /\ first[2] < second[2]

RowOf(entry, window, now) ==
    [local_start |-> Max(entry.start, window[1]),
     local_end |-> Min(IF entry.end = None THEN now ELSE entry.end, window[2]),
     duration |-> Clip(entry, window, now),
     text |-> entry.text]

\* The rows are the rows of the listed intervals, one each
RowsOf(rows, es, listed, window, now) ==
    /\ Len(rows) = Cardinality(listed)
    /\ \A i \in listed :
          \E k \in 1..Len(rows) : rows[k] = RowOf(es[i], window, now)

\* C26: summarize_entries returns one row for each interval of the
\* snapshot whose clipped duration in the window at now is positive, with
\* that duration, and none for an interval whose clipped duration is zero;
\* so the durations of the rows sum to the window total.
C26_RowsOfPositiveClips ==
    aggCall = "summarize_entries" =>
        /\ RowsOf(aggResult, entries,
                  {i \in 1..Len(entries) :
                      Clip(entries[i], clampWindow, clampNow) > 0},
                  clampWindow, clampNow)
        /\ Sum([k \in 1..Len(aggResult) |-> aggResult[k].duration])
             = total_for_range(entries, clampWindow[1], clampWindow[2], clampNow)

\* C26, amended: one row for each closed interval whose clipped duration is
\* positive, none for the open interval and none for a clipped duration of
\* zero; the durations of the rows sum to the window total less the part
\* of the open interval.
C26_RowsOfClosedPositiveClips ==
    aggCall = "summarize_entries" =>
        LET open == SelectSeq(entries, LAMBDA entry : entry.end = None)
        IN  /\ RowsOf(aggResult, entries,
                      {i \in 1..Len(entries) :
                          /\ entries[i].end # None
                          /\ Clip(entries[i], clampWindow, clampNow) > 0},
                      clampWindow, clampNow)
            /\ Sum([k \in 1..Len(aggResult) |-> aggResult[k].duration])
                 = total_for_range(entries, clampWindow[1], clampWindow[2],
                                   clampNow)
                   - ClipSum(open, clampWindow, clampNow)

\* C26 witness: a closed entry outside the window, a closed entry inside
\* and an open entry inside: one row
C26_Witness ==
    /\ aggCall = "summarize_entries"
    /\ Len(entries) = 3
    /\ entries[3].end = None
    /\ Clip(entries[1], clampWindow, clampNow) = 0
    /\ Clip(entries[3], clampWindow, clampNow) > 0
    /\ Len(aggResult) = 1

\* ------------------------------------------------- properties: storage
\* A label in one line, with no whitespace at either end
SingleLine(text) == \A i \in 1..Len(text) : text[i] # FF
Trimmed(text) == strip(text) = text

Common(existing, candidate, now) ==
    LET existing_end == IF existing.end = None THEN now ELSE existing.end
        candidate_end == IF candidate.end = None THEN now ELSE candidate.end
    IN  Min(existing_end, candidate_end) - Max(existing.start, candidate.start)

\* C28: check_overlap returns a result exactly when some interval of the
\* list has a positive duration in common with the candidate (open ends
\* taken as now): the first such interval in list order, with
\* min(ends) - max(starts); it returns None when there is none, intervals
\* that only touch the candidate at an endpoint included.
C28_FirstOverlap ==
    aggCall = "check_overlap" =>
        LET hits == {i \in 1..Len(entries) :
                        Common(entries[i], aggArg, clampNow) > 0}
        IN  IF hits = {} THEN aggResult = <<0, 0>>
            ELSE \E i \in hits :
                    /\ \A j \in hits : i <= j
                    /\ aggResult = <<i, Common(entries[i], aggArg, clampNow)>>

\* C28 witness: the first interval ends where the candidate starts, the
\* second is open and overlaps it up to now: the second is returned
C28_Witness ==
    /\ aggCall = "check_overlap"
    /\ Len(entries) = 2
    /\ entries[1].end = aggArg.start
    /\ entries[1].start < aggArg.start
    /\ entries[2].end = None
    /\ aggArg.end = None
    /\ aggResult[1] = 2
    /\ aggResult[2] > 0

\* C29: the layout computation always ends and never fails: for every list
\* of minimum heights and every total the shrink loop of _shrink_to_total
\* is left with a list of as many heights as it was given, and
\* allocate_left_heights returns three heights for every total.
C29_LayoutTerminates ==
    <>(IF layValues = Mins
       THEN layHeights \in [1..3 -> Nat]
       ELSE shrPc = "done" /\ shrResult \in [1..Len(layValues) -> Nat])

\* 4 panels of minimum 3 with total 3: the loop has ended with every panel
\* at 1 row
C29_Witness ==
    /\ shrPc = "done"
    /\ layValues = <<3, 3, 3, 3>>
    /\ layTotal = 3
    /\ shrResult = <<1, 1, 1, 1>>

\* C30: when the dashboard and another front-end on the same log each run
\* a start, with their steps (read, check, append) interleaved in any order,
\* the log holds at most one open interval once both starts have ended,
\* as it did before them.
C30_OneOpenAfterTwoStarts ==
    (\A p \in FrontEnds : racePc[p] \in {"done", "refused"}) =>
        OpenCount(read_entries(file)) <= 1

\* C31: for every terminal height the panel heights of draw fit the content
\* area: 3 (status) + day + week + top <= content_height in the left column
\* and current_task_height + comment_box_height <= content_height in the
\* right column.
C31_PanelsFit ==
    aggCall = "draw" =>
        /\ StatusHeight + Sum(layHeights) <= ContentHeight(aggArg)
        /\ aggResult[1] + aggResult[2] <= ContentHeight(aggArg)

\* The cases in which a command is to be rejected, on the log it finds
Rejected ==
    LET stored == Stored(file)
        open == {i \in 1..Len(stored) : stored[i].end = None}
    IN  \/ aggArg.cmd = "start" /\ open # {}
        \/ aggArg.cmd = "stop" /\ open = {}
        \/ /\ aggArg.cmd = "stop"
           /\ \E i \in open :
                 /\ \A j \in open : j <= i
                 /\ aggArg.at <= stored[i].start
        \/ aggArg.cmd = "add" /\ aggArg.end <= aggArg.at
        \/ /\ aggArg.cmd = "add"
           /\ aggArg.end > aggArg.at
           /\ \E i \in 1..Len(stored) :
                 Common(stored[i],
                        Entry(aggArg.at, aggArg.end, aggArg.text),
                        aggArg.end) > 0

\* C32: every rejected command leaves the store unchanged: start while an
\* interval is open, stop with no open interval, stop with a stop time not
\* after the open interval's start (no floor is applied), add with end not
\* after start and add overlapping an existing interval all exit with an
\* error and the log is as it was.
C32_RejectedLeavesStore ==
    [][Rejected => (aggResult' = "SystemExit" /\ file' = file)]_vars

\* command_stop has exited on a stop time that is not after the start of
\* the open interval, which is still open in the log
C32_Witness ==
    /\ aggCall = "command_stop"
    /\ aggResult = "SystemExit"
    /\ \E i \in 1..Len(Stored(file)) :
          /\ Stored(file)[i].end = None
          /\ aggArg.at <= Stored(file)[i].start
====
